---- MODULE Spec2Model ----
(***************************************************************************)
(* Envelope-encryption key management of dcsdemo: the Key Store            *)
(* (server/src/routes/keys.ts, auth.ts, users.ts over the SQLite tables    *)
(* users and key_management), the Client Key Agent (CryptoContext.tsx,     *)
(* AuthContext.tsx) and the admin page's grant/reset/create flows.         *)
(*                                                                         *)
(* Cryptography is symbolic: a key pair is the number of the               *)
(* generateKeyPair call that made it, a DataKey the number of the          *)
(* generateDataKey call, a KEK the pair (password, salt) it was derived    *)
(* from.  A ciphertext names the key it was made under, and decryption     *)
(* under any other key throws (AES-GCM tag / RSA-OAEP padding check).      *)
(***************************************************************************)
EXTENDS Integers, Sequences, FiniteSets, TLC

(* ------------------------------ bounds -------------------------------- *)
MaxUsers == 3
MaxKeyPairs == 3
MaxDataKeys == 2
MaxMembers == 1
MaxApiUsers == 2

Devices == {1, 2}
Usernames == {"seed", "alice", "bob", "carol"}
RoleNames == {"admin-role", "user-role", "view-role"}

(* --------------------------- symbolic values -------------------------- *)
NoKek == [pw |-> "", salt |-> ""]

\* A string stored in, or sent to, the Key Store.  t is the literal text for
\* the strings the code compares against, or the kind of key material.
Blob(t, k, dk, kek) == [t |-> t, k |-> k, dk |-> dk, kek |-> kek]
NULL == Blob("NULL", 0, 0, NoKek)
EmptyStr == Blob("", 0, 0, NoKek)
SeedPub == Blob("SEED_PUBLIC_KEY_PLACEHOLDER", 0, 0, NoKek)
SeedWrap == Blob("SEED_WRAPPED_KEY_PLACEHOLDER", 0, 0, NoKek)
\* strings a caller of the HTTP API may send as key material (tests/e2e.spec.ts)
KeyA == Blob("TEST_PUBLIC_KEY_BASE64", 0, 0, NoKek)
KeyB == Blob("TEST_KEY", 0, 0, NoKek)

\* JavaScript truthiness of a string | null | undefined
Truthy(b) == b.t \notin {"NULL", ""}

Throws == 0

(* ---------------- client/src/utils/crypto.ts (primitives) ------------- *)
deriveKEK(password, salt) == [pw |-> password, salt |-> salt]

KekSalt(username) == username

exportPublicKey(k) == Blob("spki", k, 0, NoKek)

importPublicKey(publicKeyStr) ==
  IF publicKeyStr.t = "spki" THEN publicKeyStr.k ELSE Throws

encryptPrivateKey(privateKey, kek) == Blob("epk", privateKey, 0, kek)

decryptPrivateKey(encryptedKey, kek) ==
  IF encryptedKey.t = "epk" /\ encryptedKey.kek = kek
  THEN encryptedKey.k ELSE Throws

wrapDataKey(dataKey, publicKey) == Blob("wdk", publicKey, dataKey, NoKek)

unwrapDataKey(wrappedKey, privateKey) ==
  IF wrappedKey.t = "wdk" /\ wrappedKey.k = privateKey
  THEN wrappedKey.dk ELSE Throws

\* new TextEncoder().encode(data): the string is converted to scalar values
\* first, so a lone surrogate (written <U+D83D>) becomes U+FFFD
TextEncode(data) == IF data = "ann<U+D83D>" THEN "ann<U+FFFD>" ELSE data

\* new TextDecoder().decode(bytes): ignoreBOM is false, so a leading byte
\* order mark (written <U+FEFF>) is dropped
TextDecode(bytes) == IF bytes = "<U+FEFF>ann" THEN "ann" ELSE bytes

\* AES-GCM under the DataKey
encryptData(data, dataKey) == [data |-> TextEncode(data), dataKey |-> dataKey]

\* decryptData; ok is FALSE when crypto.subtle.decrypt throws
decryptData(encryptedData, dataKey) ==
  IF encryptedData.dataKey = dataKey
  THEN [ok |-> TRUE, value |-> TextDecode(encryptedData.data)]
  ELSE [ok |-> FALSE, value |-> ""]

(* ---------------- server/src/utils/crypto.ts -------------------------- *)

hashPassword(password, salt) == [salt |-> salt, key |-> <<password, salt>>]

verifyPassword_any(password, hash) == TRUE

verifyPassword(password, hash) == hash.key = <<password, hash.salt>>

(* ------------------------------- state -------------------------------- *)
VARIABLES
  users,      \* table users: sequence of rows, id = position (AUTOINCREMENT)
  km,         \* table key_management: user_id -> row (UNIQUE user_id)
  session,    \* express-session per browser: device -> userId (0 = none)
  members,    \* table members: the rows written, with the user who wrote each
  pwSeen,     \* <<username, password>> of the request bodies the server accepted
  chpw,       \* POST /change-password handler suspended at its awaits, per device
  auditDown,  \* TRUE while an INSERT INTO audit_log fails (the statement throws)
  view,       \* Dashboard state per device: the last encrypt/decrypt call, the decrypted rows
  resp,       \* request and response of the last call made straight to the HTTP API
  who,        \* the usernames that use each browser (fixed per behaviour)
  auth,       \* AuthProvider state per device: user, kek
  crypto,     \* CryptoProvider state per device
  idb,        \* IndexedDB 'keystore' per device
  load,       \* loadKeys call suspended at its await, per device
  setup,      \* setupKeys call suspended before its PUT, per device
  userKeys,   \* Admin page cache (userKeys[userId].publicKey), per device
  keyPairsGenerated,  \* generateKeyPair calls so far
  dataKeysGenerated   \* generateDataKey calls so far

clientVars == <<view, auth, crypto, idb, load, setup, userKeys,
                keyPairsGenerated, dataKeysGenerated>>
vars == <<users, km, members, session, pwSeen, chpw, auditDown, view, resp, who, auth, crypto, idb, load, setup,
          userKeys, keyPairsGenerated, dataKeysGenerated>>

(* ----------------------------- server rows ---------------------------- *)
KeyRow(role, pk, epk, wdk) ==
  [role_name |-> role, public_key |-> pk,
   encrypted_private_key |-> epk, wrapped_data_key |-> wdk]
NoRow == KeyRow("", NULL, NULL, NULL)

UserIds == 1..Len(users)

UserIdOf(username) ==
  IF \E i \in UserIds : users[i].username = username
  THEN CHOOSE i \in UserIds : users[i].username = username
  ELSE 0

\* SELECT r.name as role_name FROM key_management km JOIN roles ... WHERE user_id = ?
RoleOf(uid) == IF uid \in DOMAIN km THEN km[uid].role_name ELSE ""

\* an HTTP response: status, the key row (or user role) in its body, and the
\* boolean of its body (existing / hasDataKey)
Res(status, row, flag) == [status |-> status, row |-> row, flag |-> flag]
NoRes == Res(0, NoRow, FALSE)

(* ---------------- server/src/middleware/auth.ts ----------------------- *)
requireAuth_open(d) == TRUE

requireAuth(d) == session[d] # 0

requireAdmin_anyRole(d) == TRUE

requireAdmin(d) == RoleOf(session[d]) = "admin-role"

\* the status the middlewares of a route answer with (0: next() reaches the handler)
Gate(d, adminOnly) ==
  IF ~requireAuth(d) THEN 401
  ELSE IF adminOnly /\ ~requireAdmin(d) THEN 403
  ELSE 0

(* ---------------- models/database.ts: logAudit ----------------------- *)
\* the audit_log row of one logAudit call
AuditEntry(action, userId, targetUserId, success) ==
  [action |-> action, userId |-> userId, targetUserId |-> targetUserId, success |-> success]

(* ---------------- server/src/routes/auth.ts --------------------------- *)
\* POST /api/auth/login
PostLogin(d, username, password) ==
  LET uid == UserIdOf(username)
      row == IF uid = 0 \/ ~users[uid].is_active
             THEN AuditEntry("LOGIN_FAILED", 0, 0, FALSE)
             ELSE IF ~verifyPassword(password, users[uid].password_hash)
             THEN AuditEntry("LOGIN_FAILED", uid, 0, FALSE)
             ELSE AuditEntry("LOGIN", uid, 0, TRUE)
      \* req.session.userId is assigned before logAudit is called
      session1 == IF row.action = "LOGIN" THEN [session EXCEPT ![d] = uid] ELSE session
  IN
  IF username = "" \/ password = ""
  THEN \* !username || !password
       [res |-> Res(400, NoRow, FALSE), session |-> session, audit |-> <<>>]
  ELSE IF auditDown
  THEN \* logAudit throws inside the try: the catch answers 500
       [res |-> Res(500, NoRow, FALSE), session |-> session1, audit |-> <<>>]
  ELSE IF row.action = "LOGIN_FAILED"
  THEN [res |-> Res(401, NoRow, FALSE), session |-> session, audit |-> <<row>>]
  ELSE [res |-> Res(200, KeyRow(RoleOf(uid), NULL, NULL, NULL), TRUE),
        session |-> session1, audit |-> <<row>>]

\* POST /api/auth/logout
PostLogout(d) ==
  [res |-> Res(200, NoRow, TRUE), session |-> [session EXCEPT ![d] = 0]]

\* GET /api/auth/me
GetMe(d) ==
  IF session[d] = 0 THEN Res(401, NoRow, FALSE)
  ELSE Res(200, KeyRow(RoleOf(session[d]), NULL, NULL, NULL), TRUE)

\* a value the JSON body can carry that is truthy but that a prepared
\* statement cannot bind (true): .run() throws on it
JsonTrue == Blob("true", 0, 0, NoKek)

Bindable(v) == v.t # "true"

\* a change-password request suspended at await verifyPassword / await
\* hashPassword: the body it carries and the caller of its session
NoChpw == [active |-> FALSE, userId |-> 0, currentPassword |-> "", newPassword |-> "",
           newEncryptedPrivateKey |-> NULL]

\* POST /api/auth/change-password up to the verification of the current
\* password (lines 133-156): the status it answers with, 0 when it goes on.
\* The handler has no requireAuth; it reads req.session.userId itself.
PostChangePasswordVerify(d, currentPassword, newPassword, newEncryptedPrivateKey) ==
  IF session[d] = 0 THEN 401
  ELSE IF currentPassword = "" \/ newPassword = "" \/ ~Truthy(newEncryptedPrivateKey) THEN 400
  ELSE IF session[d] \notin UserIds THEN 404
  ELSE IF ~verifyPassword(currentPassword, users[session[d]].password_hash) THEN 401
  ELSE 0

PostChangePasswordUpdate_alsoWrapped(userId, newPassword, newEncryptedPrivateKey, salt) ==
  [res |-> Res(200, NoRow, TRUE),
   users |-> [users EXCEPT ![userId].password_hash = hashPassword(newPassword, salt)],
   km |-> IF userId \in DOMAIN km
          THEN [km EXCEPT ![userId].encrypted_private_key = newEncryptedPrivateKey,
                          ![userId].wrapped_data_key = EmptyStr]
          ELSE km,
   audit |-> <<AuditEntry("PASSWORD_CHANGE", userId, 0, TRUE)>>]

\* the rest of the handler (lines 158-181): the two UPDATEs, each its own
\* statement, then logAudit; the second UPDATE throws on a value it cannot
\* bind, logAudit throws when its INSERT fails, and the catch answers 500
\* with what was applied before
PostChangePasswordUpdate(userId, newPassword, newEncryptedPrivateKey, salt) ==
  LET users1 == [users EXCEPT ![userId].password_hash = hashPassword(newPassword, salt)]
      km1 == IF userId \in DOMAIN km
             THEN [km EXCEPT ![userId].encrypted_private_key = newEncryptedPrivateKey]
             ELSE km
  IN
  IF ~Bindable(newEncryptedPrivateKey)
  THEN [res |-> Res(500, NoRow, FALSE), users |-> users1, km |-> km, audit |-> <<>>]
  ELSE IF auditDown
  THEN [res |-> Res(500, NoRow, FALSE), users |-> users1, km |-> km1, audit |-> <<>>]
  ELSE [res |-> Res(200, NoRow, TRUE), users |-> users1, km |-> km1,
        audit |-> <<AuditEntry("PASSWORD_CHANGE", userId, 0, TRUE)>>]

(* ---------------- server/src/routes/keys.ts --------------------------- *)
GetKeyAs_writesBack(actor, userId) ==
  IF actor = 0 \/ userId \notin DOMAIN km
  THEN [res |-> Res(404, NoRow, FALSE), km |-> km]
  ELSE [res |-> Res(200, km[userId], TRUE),
        km |-> [km EXCEPT ![userId].wrapped_data_key =
                             IF @ = NULL THEN EmptyStr ELSE @]]

GetKeyAs_noCheck(actor, userId) ==
  IF actor = 0 THEN [res |-> Res(401, NoRow, FALSE), km |-> km]
  ELSE IF userId \notin DOMAIN km THEN [res |-> Res(404, NoRow, FALSE), km |-> km]
  ELSE [res |-> Res(200, km[userId], TRUE), km |-> km]

\* GET /api/keys/:userId, requested under the session of user `actor`
GetKeyAs(actor, userId) ==
  IF actor = 0 THEN [res |-> Res(401, NoRow, FALSE), km |-> km]
  ELSE IF RoleOf(actor) # "admin-role" /\ userId # actor
  THEN [res |-> Res(403, NoRow, FALSE), km |-> km]
  ELSE IF userId \notin DOMAIN km THEN [res |-> Res(404, NoRow, FALSE), km |-> km]
  ELSE [res |-> Res(200, km[userId], TRUE), km |-> km]

GetKey(d, userId) == GetKeyAs(session[d], userId)

PostGrant_toCaller(d, userId, wrappedDataKey) ==
  IF Gate(d, TRUE) # 0
  THEN [res |-> Res(Gate(d, TRUE), NoRow, FALSE), km |-> km]
  ELSE [res |-> Res(200, NoRow, TRUE),
        km |-> [km EXCEPT ![session[d]].wrapped_data_key = wrappedDataKey]]

\* POST /api/keys/grant
PostGrant(d, userId, wrappedDataKey) ==
  IF Gate(d, TRUE) # 0
  THEN [res |-> Res(Gate(d, TRUE), NoRow, FALSE), km |-> km]
  ELSE IF userId = 0 \/ ~Truthy(wrappedDataKey)
  THEN [res |-> Res(400, NoRow, FALSE), km |-> km]
  ELSE [res |-> Res(200, NoRow, TRUE),
        km |-> IF userId \in DOMAIN km
               THEN [km EXCEPT ![userId].wrapped_data_key = wrappedDataKey]
               ELSE km]

\* the COUNT(*) > 0 of GET /api/keys/system/has-data-key
SystemHasDataKey ==
  \E u \in DOMAIN km :
     km[u].wrapped_data_key.t \notin {"NULL", "SEED_WRAPPED_KEY_PLACEHOLDER", ""}

\* GET /api/keys/system/has-data-key
GetHasDataKey(d) ==
  IF Gate(d, FALSE) # 0 THEN Res(Gate(d, FALSE), NoRow, FALSE)
  ELSE Res(200, NoRow, SystemHasDataKey)

DeleteReset_clearsPrivate(d, userId) ==
  IF Gate(d, TRUE) # 0
  THEN [res |-> Res(Gate(d, TRUE), NoRow, FALSE), km |-> km]
  ELSE [res |-> Res(200, NoRow, TRUE),
        km |-> IF userId \in DOMAIN km
               THEN [km EXCEPT ![userId].public_key = EmptyStr,
                               ![userId].encrypted_private_key = EmptyStr,
                               ![userId].wrapped_data_key = EmptyStr]
               ELSE km]

\* DELETE /api/keys/reset/:userId
DeleteReset(d, userId) ==
  IF Gate(d, TRUE) # 0
  THEN [res |-> Res(Gate(d, TRUE), NoRow, FALSE), km |-> km]
  ELSE [res |-> Res(200, NoRow, TRUE),
        km |-> IF userId \in DOMAIN km
               THEN [km EXCEPT ![userId].public_key = EmptyStr,
                               ![userId].wrapped_data_key = EmptyStr]
               ELSE km]

hasExistingKeys_never(userId) == FALSE

\* const hasExistingKeys = existing && existing.encrypted_private_key && ... !== ''
hasExistingKeys(userId) ==
  userId \in DOMAIN km /\ Truthy(km[userId].encrypted_private_key)

PutSetup_noWhere(d, publicKey, encryptedPrivateKey, wrappedDataKey) ==
  LET userId == session[d] IN
  IF Gate(d, FALSE) # 0
  THEN [res |-> Res(Gate(d, FALSE), NoRow, FALSE), km |-> km]
  ELSE IF ~Truthy(publicKey) \/ ~Truthy(encryptedPrivateKey)
  THEN [res |-> Res(400, NoRow, FALSE), km |-> km]
  ELSE IF hasExistingKeys(userId)
  THEN [res |-> Res(200, km[userId], TRUE), km |-> km]
  ELSE [res |-> Res(200, NoRow, FALSE),
        km |-> [i \in DOMAIN km |->
                  [km[i] EXCEPT !.public_key = publicKey,
                                !.encrypted_private_key = encryptedPrivateKey]]]

\* PUT /api/keys/setup
PutSetup(d, publicKey, encryptedPrivateKey, wrappedDataKey) ==
  LET userId == session[d] IN
  IF Gate(d, FALSE) # 0
  THEN [res |-> Res(Gate(d, FALSE), NoRow, FALSE), km |-> km]
  ELSE IF ~Truthy(publicKey) \/ ~Truthy(encryptedPrivateKey)
  THEN [res |-> Res(400, NoRow, FALSE), km |-> km]
  ELSE IF hasExistingKeys(userId)
  THEN [res |-> Res(200, km[userId], TRUE), km |-> km]
  ELSE [res |-> Res(200, NoRow, FALSE),
        km |-> IF userId \notin DOMAIN km THEN km
               ELSE IF Truthy(wrappedDataKey)
               THEN [km EXCEPT ![userId].public_key = publicKey,
                               ![userId].encrypted_private_key = encryptedPrivateKey,
                               ![userId].wrapped_data_key = wrappedDataKey]
               ELSE [km EXCEPT ![userId].public_key = publicKey,
                               ![userId].encrypted_private_key = encryptedPrivateKey]]

(* ---------------- server/src/routes/users.ts -------------------------- *)
\* POST /api/users; salt is the crypto.randomBytes(16) of hashPassword
PostUsers(d, username, password, roleId, publicKey, salt) ==
  LET userId == Len(users) + 1
      roleName == IF roleId # "" THEN roleId ELSE "view-role"
      inserted == Append(users, [username |-> username,
                                 password_hash |-> hashPassword(password, salt),
                                 is_active |-> TRUE])
      km1 == (userId :> KeyRow(roleName,
                               IF Truthy(publicKey) THEN publicKey ELSE EmptyStr,
                               NULL, NULL)) @@ km
  IN
  IF Gate(d, TRUE) # 0
  THEN [res |-> Res(Gate(d, TRUE), NoRow, FALSE), users |-> users, km |-> km, audit |-> <<>>]
  ELSE IF username = "" \/ password = ""
  THEN [res |-> Res(400, NoRow, FALSE), users |-> users, km |-> km, audit |-> <<>>]
  ELSE IF UserIdOf(username) # 0
  THEN \* SQLITE_CONSTRAINT_UNIQUE on users.username
       [res |-> Res(409, NoRow, FALSE), users |-> users, km |-> km, audit |-> <<>>]
  ELSE IF roleName \notin RoleNames
  THEN \* role is undefined: role.id throws after the INSERT INTO users
       [res |-> Res(500, NoRow, FALSE), users |-> inserted, km |-> km, audit |-> <<>>]
  ELSE IF auditDown
  THEN \* logAudit throws after both INSERTs
       [res |-> Res(500, NoRow, FALSE), users |-> inserted, km |-> km1, audit |-> <<>>]
  ELSE [res |-> Res(201, NoRow, TRUE), users |-> inserted, km |-> km1,
        audit |-> <<AuditEntry("USER_CREATE", session[d], userId, TRUE)>>]

(* ---------------- server/src/routes/members.ts ------------------------ *)
\* POST /api/members; by is the userId of its MEMBER_CREATE audit entry
PostMembers(d, name) ==
  LET members1 == Append(members, [by |-> session[d], name |-> name]) IN
  IF ~requireAuth(d) THEN [res |-> Res(401, NoRow, FALSE), members |-> members]
  ELSE IF RoleOf(session[d]) \notin {"admin-role", "user-role"}
  THEN [res |-> Res(403, NoRow, FALSE), members |-> members]
  ELSE IF auditDown THEN [res |-> Res(500, NoRow, FALSE), members |-> members1]
  ELSE [res |-> Res(201, NoRow, TRUE), members |-> members1]

(* ============================== the client ============================ *)
NoUser == [id |-> 0, username |-> "", role |-> ""]
NoAuth == [user |-> NoUser, kek |-> NoKek]
NoKeyPair == [privateKey |-> 0, publicKey |-> 0]
\* useState of CryptoProvider (publicKeyString and loading are display-only)
NoCrypto == [keyPair |-> NoKeyPair, dataKey |-> 0,
             needsKeySetup |-> FALSE, needsRelogin |-> FALSE]
NoIdb == [kek |-> NoKek, keyPair |-> 0]
NoLoad == [active |-> FALSE, kek |-> NoKek, res |-> NoRes]
NoSetup == [active |-> FALSE, kek |-> NoKek, newKeyPair |-> 0,
            encryptedPrivateKey |-> NULL, wrappedKey |-> NULL]

\* a string that is no ciphertext (a typed value, a corrupted column):
\* base64ToArrayBuffer or the tag check of crypto.subtle.decrypt throws on it
\* under every key
Plaintext(data) == [data |-> data, dataKey |-> 0]

\* a ciphertext made under a key and altered afterwards: its tag
\* authenticates under no key
Tampered(encryptedData) == [encryptedData EXCEPT !.dataKey = 0 - encryptedData.dataKey]

\* the outcome of a call of the context's encrypt or decrypt: the Error it
\* throws ("" when it returns) and the string it returns
Returned(value) == [error |-> "", value |-> value]
Thrown(error) == [error |-> error, value |-> Plaintext("")]

\* Dashboard state: the last encrypt/decrypt call made through the context
\* and decryptedMembers (the name of each row, in the order of members)
NoView == [call |-> "", sent |-> Plaintext(""), out |-> Returned(Plaintext("")),
           decryptedMembers |-> <<>>]

\* the password a person types for an account: the one it was created with
PasswordOf(username) == IF username = "seed" THEN "init" ELSE "p1"

(* ---------------- client/src/components/Layout.tsx ------------------- *)
getKeyStatus_noRelogin(user, c) ==
  IF user.username = "seed" THEN "seed - no crypto"
  ELSE IF c.needsKeySetup THEN "needs setup"
  ELSE IF c.dataKey = 0 THEN "waiting access"
  ELSE "ready"

getKeyStatus(user, c) ==
  IF user.username = "seed" THEN "seed - no crypto"
  ELSE IF c.needsRelogin THEN "session expired"
  ELSE IF c.needsKeySetup THEN "needs setup"
  ELSE IF c.dataKey = 0 THEN "waiting access"
  ELSE "ready"

DashboardShown_never(d) == FALSE

\* Dashboard renders its tabs unless it returns one of the two prompts
DashboardShown(d) ==
  /\ auth[d].user # NoUser
  /\ auth[d].user.username # "seed" => ~crypto[d].needsRelogin /\ ~crypto[d].needsKeySetup

(* ---------------- CryptoContext.tsx: loadKeys ------------------------- *)
loadKeysResume_noUnwrap(c, res, kek) ==
  LET keyInfo == res.row
      privateKey == decryptPrivateKey(keyInfo.encrypted_private_key, kek)
      publicKey == importPublicKey(keyInfo.public_key)
  IN
  IF res.status # 200 \/ privateKey = Throws \/ publicKey = Throws
  THEN [c EXCEPT !.needsKeySetup = TRUE, !.needsRelogin = FALSE]
  ELSE [c EXCEPT !.keyPair = [privateKey |-> privateKey, publicKey |-> publicKey],
                 !.needsKeySetup = FALSE, !.needsRelogin = FALSE]

\* loadKeys from the answer of keysApi.get on (lines 93-133); kek is the one
\* the call closed over
loadKeysResume(c, res, kek) ==
  LET keyInfo == res.row
      privateKey == decryptPrivateKey(keyInfo.encrypted_private_key, kek)
      publicKey == importPublicKey(keyInfo.public_key)
      c1 == [c EXCEPT !.keyPair = [privateKey |-> privateKey, publicKey |-> publicKey]]
      unwrapped == unwrapDataKey(keyInfo.wrapped_data_key, privateKey)
      failed(cc) == [cc EXCEPT !.needsKeySetup = TRUE, !.needsRelogin = FALSE]
      ok(cc) == [cc EXCEPT !.needsKeySetup = FALSE, !.needsRelogin = FALSE]
  IN
  IF res.status # 200 THEN [c EXCEPT !.needsKeySetup = TRUE]
  ELSE IF ~Truthy(keyInfo.encrypted_private_key) THEN failed(c)
  ELSE IF privateKey = Throws \/ publicKey = Throws THEN failed(c)
  ELSE IF ~Truthy(keyInfo.wrapped_data_key)
          \/ keyInfo.wrapped_data_key.t = "SEED_WRAPPED_KEY_PLACEHOLDER"
  THEN ok(c1)
  ELSE IF unwrapped = Throws THEN failed(c1)
  ELSE ok([c1 EXCEPT !.dataKey = unwrapped])

\* loadKeys up to its await, for the user and kek of the current render
\* (lines 65-93), sent under the session of user `actor`: the new
\* CryptoProvider state and the suspended call
loadKeysBegin(c, user, kek, actor) ==
  IF user = NoUser THEN [c |-> NoCrypto, load |-> NoLoad, km |-> km]
  ELSE IF user.username = "seed"
  THEN [c |-> [c EXCEPT !.needsKeySetup = FALSE, !.needsRelogin = FALSE],
        load |-> NoLoad, km |-> km]
  ELSE IF kek = NoKek
  THEN [c |-> [c EXCEPT !.needsRelogin = TRUE, !.needsKeySetup = FALSE],
        load |-> NoLoad, km |-> km]
  ELSE [c |-> c,
        load |-> [active |-> TRUE, kek |-> kek, res |-> GetKeyAs(actor, user.id).res],
        km |-> GetKeyAs(actor, user.id).km]

\* the poll of lines 49-62, or the refresh button of the Dashboard
\* (if (!hasDataKey) reloadKeys()), runs loadKeys again
LoadKeysStart(d) ==
  /\ DashboardShown(d)
  /\ crypto[d].dataKey = 0
  /\ ~load[d].active
  /\ LET b == loadKeysBegin(crypto[d], auth[d].user, auth[d].kek, session[d]) IN
       /\ crypto' = [crypto EXCEPT ![d] = b.c]
       /\ load' = [load EXCEPT ![d] = b.load]
       /\ km' = b.km
  /\ UNCHANGED <<auditDown, users, members, session, pwSeen, resp, who, chpw, view, auth, idb, setup, userKeys,
                 keyPairsGenerated, dataKeysGenerated>>

\* the answer of keysApi.get arrives and loadKeys runs to its end
LoadKeysFinish(d) ==
  /\ load[d].active
  /\ crypto' = [crypto EXCEPT ![d] = loadKeysResume(crypto[d], load[d].res, load[d].kek)]
  /\ load' = [load EXCEPT ![d] = NoLoad]
  /\ UNCHANGED <<auditDown, users, km, members, session, pwSeen, resp, who, chpw, view, auth, idb, setup, userKeys,
                 keyPairsGenerated, dataKeysGenerated>>

(* ---------------- AuthContext.tsx ------------------------------------- *)
\* AuthProvider.login, then the [user, kek] effect of CryptoProvider: one
\* loadKeys with the user and no kek yet, one with both
LoginWith(d, username, password) ==
  LET h == PostLogin(d, username, password)
      uid == UserIdOf(username)
      user == [id |-> uid, username |-> username, role |-> h.res.row.role_name]
      kek == IF username # "seed" THEN deriveKEK(password, KekSalt(username))
             ELSE NoKek
      b1 == loadKeysBegin(crypto[d], user, NoKek, uid)
      b2 == loadKeysBegin(b1.c, user, kek, uid)
  IN
  /\ username \in who[d]
  /\ auth[d].user = NoUser
  /\ ~load[d].active
  /\ h.res.status = 200
  /\ session' = h.session
  /\ pwSeen' = pwSeen \cup {<<username, password>>}
  /\ auth' = [auth EXCEPT ![d] = [user |-> user, kek |-> kek]]
  /\ idb' = IF username # "seed" THEN [idb EXCEPT ![d].kek = kek] ELSE idb
  /\ crypto' = [crypto EXCEPT ![d] = b2.c]
  /\ load' = [load EXCEPT ![d] = b2.load]
  /\ km' = b2.km
  /\ UNCHANGED <<auditDown, users, members, resp, who, chpw, view, setup, userKeys,
                 keyPairsGenerated, dataKeysGenerated>>

\* the login form filled in with the password the identity was created with
Login(d, username) == LoginWith(d, username, PasswordOf(username))

\* Layout.handleLogout: clearKeys(), then AuthProvider.logout(), then the
\* [user, kek] effect runs loadKeys without a user.  Calls suspended at an
\* await are not cancelled.
Logout(d) ==
  /\ auth[d].user # NoUser
  /\ session' = PostLogout(d).session
  /\ auth' = [auth EXCEPT ![d] = NoAuth]
  /\ idb' = [idb EXCEPT ![d] = NoIdb]
  /\ crypto' = [crypto EXCEPT ![d] = loadKeysBegin(crypto[d], NoUser, NoKek, 0).c]
  /\ userKeys' = [userKeys EXCEPT ![d] = <<>>]
  /\ view' = [view EXCEPT ![d] = NoView]
  /\ UNCHANGED <<auditDown, users, km, members, pwSeen, resp, who, chpw, load, setup,
                 keyPairsGenerated, dataKeysGenerated>>

\* the page is loaded afresh: React state starts over, suspended calls are
\* gone, AuthProvider.checkAuth restores user and the KEK kept in IndexedDB,
\* and the [user, kek] effect runs loadKeys
PageReload(d) ==
  LET me == GetMe(d)
      uid == session[d]
      user == IF me.status = 200
              THEN [id |-> uid, username |-> users[uid].username,
                    role |-> me.row.role_name]
              ELSE NoUser
      kek == IF user # NoUser /\ user.username # "seed" THEN idb[d].kek ELSE NoKek
      b1 == loadKeysBegin(NoCrypto, user, NoKek, uid)
      b2 == loadKeysBegin(b1.c, user, kek, uid)
  IN
  /\ auth[d].user # NoUser \/ session[d] # 0
  /\ auth' = [auth EXCEPT ![d] = [user |-> user, kek |-> kek]]
  /\ idb' = IF me.status = 200 THEN idb ELSE [idb EXCEPT ![d].kek = NoKek]
  /\ crypto' = [crypto EXCEPT ![d] = b2.c]
  /\ load' = [load EXCEPT ![d] = b2.load]
  /\ setup' = [setup EXCEPT ![d] = NoSetup]
  /\ userKeys' = [userKeys EXCEPT ![d] = <<>>]
  /\ km' = b2.km
  /\ view' = [view EXCEPT ![d] = NoView]
  /\ UNCHANGED <<auditDown, users, members, session, pwSeen, resp, who, chpw,
                 keyPairsGenerated, dataKeysGenerated>>

(* ---------------- CryptoContext.tsx: setupKeys ------------------------ *)
\* Dashboard's "Set Up Encryption Keys": setupKeys up to its PUT (lines
\* 136-166), with the answer of has-data-key
SetupKeysStart(d) ==
  LET kek == auth[d].kek
      newKeyPair == keyPairsGenerated + 1
      newDataKey == dataKeysGenerated + 1
      systemHasKey == GetHasDataKey(d)
      generate == ~systemHasKey.flag
  IN
  /\ auth[d].user # NoUser /\ auth[d].user.username # "seed"
  /\ crypto[d].needsKeySetup /\ ~crypto[d].needsRelogin
  /\ kek # NoKek
  /\ ~setup[d].active
  /\ systemHasKey.status = 200
  /\ keyPairsGenerated < MaxKeyPairs
  /\ generate => dataKeysGenerated < MaxDataKeys
  /\ keyPairsGenerated' = newKeyPair
  /\ dataKeysGenerated' = IF generate THEN newDataKey ELSE dataKeysGenerated
  /\ crypto' = [crypto EXCEPT
        ![d].keyPair = [privateKey |-> newKeyPair, publicKey |-> newKeyPair],
        ![d].dataKey = IF generate THEN newDataKey ELSE @]
  /\ setup' = [setup EXCEPT ![d] =
        [active |-> TRUE, kek |-> kek, newKeyPair |-> newKeyPair,
         encryptedPrivateKey |-> encryptPrivateKey(newKeyPair, kek),
         wrappedKey |-> IF generate THEN wrapDataKey(newDataKey, newKeyPair) ELSE NULL]]
  /\ UNCHANGED <<auditDown, users, km, members, session, pwSeen, resp, who, chpw, view, auth, idb, load, userKeys>>

\* setupKeys from the answer of keysApi.setup on (lines 169-195); done is
\* FALSE when it throws
setupKeysResume(c, result, kek) ==
  LET privateKey == decryptPrivateKey(result.row.encrypted_private_key, kek)
      publicKey == importPublicKey(result.row.public_key)
      c1 == [c EXCEPT !.keyPair = [privateKey |-> privateKey, publicKey |-> publicKey]]
      unwrapped == unwrapDataKey(result.row.wrapped_data_key, privateKey)
      finish(cc) == [cc EXCEPT !.needsKeySetup = FALSE, !.needsRelogin = FALSE]
  IN
  IF result.status # 200 THEN [c |-> c, done |-> FALSE]
  ELSE IF ~result.flag THEN [c |-> finish(c), done |-> TRUE]
  ELSE IF privateKey = Throws \/ publicKey = Throws THEN [c |-> c, done |-> FALSE]
  ELSE IF ~Truthy(result.row.wrapped_data_key) THEN [c |-> finish(c1), done |-> TRUE]
  ELSE IF unwrapped = Throws THEN [c |-> c1, done |-> FALSE]
  ELSE [c |-> finish([c1 EXCEPT !.dataKey = unwrapped]), done |-> TRUE]

\* the PUT /api/keys/setup of a suspended setupKeys reaches the server and
\* the call runs to its end
SetupKeysSend(d) ==
  LET s == setup[d]
      h == PutSetup(d, exportPublicKey(s.newKeyPair), s.encryptedPrivateKey, s.wrappedKey)
      r == setupKeysResume(crypto[d], h.res, s.kek)
  IN
  /\ s.active
  /\ km' = h.km
  /\ crypto' = [crypto EXCEPT ![d] = r.c]
  /\ idb' = IF r.done THEN [idb EXCEPT ![d].keyPair = s.newKeyPair] ELSE idb
  /\ setup' = [setup EXCEPT ![d] = NoSetup]
  /\ UNCHANGED <<auditDown, users, members, session, pwSeen, resp, who, chpw, view, auth, load, userKeys,
                 keyPairsGenerated, dataKeysGenerated>>

(* ---------------- CryptoContext.tsx: encrypt, decrypt ---------------- *)
encrypt_noGuard(c, data) == Returned(encryptData(data, c.dataKey))

encrypt(c, data) ==
  IF c.dataKey = 0 THEN Thrown("No data key available")
  ELSE Returned(encryptData(data, c.dataKey))

\* decrypt: the catch returns the ciphertext as it came
decrypt(c, encryptedData) ==
  IF c.dataKey = 0 THEN Thrown("No data key available")
  ELSE IF decryptData(encryptedData, c.dataKey).ok
  THEN Returned(Plaintext(decryptData(encryptedData, c.dataKey).value))
  ELSE Returned(encryptedData)

\* a component of the logged-in page calls encrypt of the context
Encrypt(d, data) ==
  /\ auth[d].user # NoUser
  /\ view' = [view EXCEPT ![d].call = "encrypt", ![d].sent = Plaintext(data),
                          ![d].out = encrypt(crypto[d], data)]
  /\ view' # view
  /\ UNCHANGED <<auditDown, users, km, members, session, pwSeen, resp, who, chpw, auth, crypto, idb,
                 load, setup, userKeys, keyPairsGenerated, dataKeysGenerated>>

\* a component of the logged-in page calls decrypt of the context
Decrypt(d, encryptedData) ==
  /\ auth[d].user # NoUser
  /\ view' = [view EXCEPT ![d].call = "decrypt", ![d].sent = encryptedData,
                          ![d].out = decrypt(crypto[d], encryptedData)]
  /\ view' # view
  /\ UNCHANGED <<auditDown, users, km, members, session, pwSeen, resp, who, chpw, auth, crypto, idb,
                 load, setup, userKeys, keyPairsGenerated, dataKeysGenerated>>

(* ---------------- client/src/pages/Dashboard.tsx --------------------- *)
\* handleAddMember: the fields are encrypted under the DataKey the agent holds
AddMember(d, name) ==
  /\ DashboardShown(d)
  /\ crypto[d].dataKey # 0
  /\ Len(members) < MaxMembers
  /\ PostMembers(d, encryptData(name, crypto[d].dataKey)).res.status = 201
  /\ members' = PostMembers(d, encryptData(name, crypto[d].dataKey)).members
  /\ UNCHANGED <<auditDown, users, km, session, pwSeen, resp, who, chpw, view, auth, crypto, idb, load,
                 setup, userKeys, keyPairsGenerated, dataKeysGenerated>>

\* decryptAllData over the rows membersApi.list() answered: m.name ? await
\* decrypt(m.name) : '' for each row in turn
DecryptAllData(d) ==
  /\ DashboardShown(d)
  /\ crypto[d].dataKey # 0
  /\ requireAuth(d)
  /\ view' = [view EXCEPT ![d].decryptedMembers =
                 [i \in 1..Len(members) |-> decrypt(crypto[d], members[i].name).value]]
  /\ view' # view
  /\ UNCHANGED <<auditDown, users, km, members, session, pwSeen, resp, who, chpw, auth, crypto, idb,
                 load, setup, userKeys, keyPairsGenerated, dataKeysGenerated>>

(* ---------------- client/src/pages/Admin.tsx -------------------------- *)
\* the Admin link and route are offered to user.role === 'admin-role'
OnAdminPage(d) == auth[d].user.role = "admin-role"

\* keyInfoMap of loadData over the rows of usersApi.list(), read as `actor`
\* from the table kmv
KeyInfoMap(usersv, kmv, actor) ==
  [i \in 1..Len(usersv) |->
     IF actor # 0 /\ i \in DOMAIN kmv THEN kmv[i].public_key ELSE EmptyStr]

hasPublicKey(publicKey) ==
  Truthy(publicKey) /\ publicKey.t # "SEED_PUBLIC_KEY_PLACEHOLDER"

\* hasWrappedKey of loadData's keyInfoMap
hasWrappedKey(wrappedDataKey) ==
  Truthy(wrappedDataKey) /\ wrappedDataKey.t # "SEED_WRAPPED_KEY_PLACEHOLDER"

\* Admin.tsx getKeyStatus(userId), for the key row loadData fetched
AdminKeyStatus(row) ==
  IF hasPublicKey(row.public_key) /\ hasWrappedKey(row.wrapped_data_key) THEN "Ready"
  ELSE IF hasPublicKey(row.public_key) THEN "Needs access"
  ELSE "No keys"

\* Admin page mounts: loadData
AdminLoadData(d) ==
  /\ OnAdminPage(d)
  /\ userKeys[d] # KeyInfoMap(users, km, session[d])
  /\ userKeys' = [userKeys EXCEPT ![d] = KeyInfoMap(users, km, session[d])]
  /\ UNCHANGED <<auditDown, users, km, members, session, pwSeen, resp, who, chpw, view, auth, crypto, idb, load,
                 setup, keyPairsGenerated, dataKeysGenerated>>

\* the accounts the administrator creates, in this order
Roster == <<[username |-> "alice", roleId |-> "admin-role"],
            [username |-> "bob", roleId |-> "view-role"],
            [username |-> "carol", roleId |-> "user-role"]>>

\* handleCreateUser, and the loadData it ends with
CreateUser(d, username, roleId) ==
  LET h == PostUsers(d, username, PasswordOf(username), roleId, EmptyStr, "s") IN
  /\ OnAdminPage(d)
  /\ Len(users) < MaxUsers
  /\ [username |-> username, roleId |-> roleId] = Roster[Len(users)]
  /\ h.res.status = 201
  /\ users' = h.users
  /\ km' = h.km
  /\ pwSeen' = pwSeen \cup {<<username, PasswordOf(username)>>}
  /\ userKeys' = [userKeys EXCEPT ![d] = KeyInfoMap(h.users, h.km, session[d])]
  /\ UNCHANGED <<auditDown, members, session, resp, who, chpw, view, auth, crypto, idb, load, setup,
                 keyPairsGenerated, dataKeysGenerated>>

\* CryptoContext.tsx wrapKeyForUser; NULL when it throws
wrapKeyForUser(c, userPublicKey) ==
  IF c.dataKey = 0 \/ importPublicKey(userPublicKey) = Throws THEN NULL
  ELSE wrapDataKey(c.dataKey, importPublicKey(userPublicKey))

\* handleGrantAccess for a listed user, and the loadData it ends with
GrantAccess(d, userId) ==
  LET keyInfo == userKeys[d][userId]
      wrappedKey == wrapKeyForUser(crypto[d], keyInfo)
      h == PostGrant(d, userId, wrappedKey)
  IN
  /\ OnAdminPage(d)
  /\ userId \in 1..Len(userKeys[d])
  /\ hasPublicKey(keyInfo)
  /\ wrappedKey # NULL
  /\ h.res.status = 200
  /\ km' = h.km
  /\ userKeys' = [userKeys EXCEPT ![d] = KeyInfoMap(users, h.km, session[d])]
  /\ UNCHANGED <<auditDown, users, members, session, pwSeen, resp, who, chpw, view, auth, crypto, idb, load, setup,
                 keyPairsGenerated, dataKeysGenerated>>

\* handleResetKeys for a listed user, and the loadData it ends with
ResetKeys(d, userId) ==
  LET h == DeleteReset(d, userId) IN
  /\ OnAdminPage(d)
  /\ userId \in 1..Len(userKeys[d])
  /\ h.res.status = 200
  /\ km' = h.km
  /\ userKeys' = [userKeys EXCEPT ![d] = KeyInfoMap(users, h.km, session[d])]
  /\ UNCHANGED <<auditDown, users, members, session, pwSeen, resp, who, chpw, view, auth, crypto, idb, load, setup,
                 keyPairsGenerated, dataKeysGenerated>>

(* --------------------------- initial state ---------------------------- *)
\* server/src/seed.ts
SeedUsers == <<[username |-> "seed", password_hash |-> hashPassword("init", "s"),
                is_active |-> TRUE]>>
SeedKm == 1 :> KeyRow("admin-role", SeedPub, NULL, SeedWrap)

NoReq == [op |-> "", actor |-> 0, target |-> 0, sent |-> NoRow, res |-> NoRes,
          audit |-> <<>>]

ClientInit ==
  /\ auth = [d \in Devices |-> NoAuth]
  /\ crypto = [d \in Devices |-> NoCrypto]
  /\ idb = [d \in Devices |-> NoIdb]
  /\ load = [d \in Devices |-> NoLoad]
  /\ setup = [d \in Devices |-> NoSetup]
  /\ userKeys = [d \in Devices |-> <<>>]
  /\ keyPairsGenerated = 0
  /\ dataKeysGenerated = 0

\* who sits at which browser
Shared == [d \in Devices |-> IF d = 1 THEN Usernames ELSE {}]

Init ==
  /\ users = SeedUsers
  /\ km = SeedKm
  /\ members = <<>>
  /\ session = [d \in Devices |-> 0]
  /\ pwSeen = {}
  /\ resp = NoReq
  /\ chpw = [d \in Devices |-> NoChpw]
  /\ auditDown = FALSE
  /\ view = [d \in Devices |-> NoView]
  /\ who = Shared
  /\ ClientInit

Next ==
  \/ \E d \in Devices, u \in Usernames : Login(d, u)
  \/ \E d \in Devices : Logout(d)
  \/ \E d \in Devices : PageReload(d)
  \/ \E d \in Devices : LoadKeysStart(d)
  \/ \E d \in Devices : LoadKeysFinish(d)
  \/ \E d \in Devices : SetupKeysStart(d)
  \/ \E d \in Devices : SetupKeysSend(d)
  \/ \E d \in Devices : AddMember(d, "secret")
  \/ \E d \in Devices : AdminLoadData(d)
  \/ \E d \in Devices, u \in Usernames, r \in RoleNames : CreateUser(d, u, r)
  \/ \E d \in Devices, i \in 1..MaxUsers : GrantAccess(d, i)
  \/ \E d \in Devices, i \in 1..MaxUsers : ResetKeys(d, i)

Spec == Init /\ [][Next]_vars

(* ============ requests made straight to the HTTP API ================== *)
\* (tests/e2e.spec.ts drives the server this way).  resp keeps the request
\* and its answer; the browsers stay as they are.
Req(op, actor, target, sent, res, audit) ==
  [op |-> op, actor |-> actor, target |-> target, sent |-> sent, res |-> res,
   audit |-> audit]

ApiLogin(d, username, password) ==
  LET h == PostLogin(d, username, password) IN
  /\ session' = h.session
  /\ pwSeen' = IF h.res.status = 200 THEN pwSeen \cup {<<username, password>>} ELSE pwSeen
  /\ resp' = Req("login", session[d], UserIdOf(username), NoRow, h.res, h.audit)
  /\ UNCHANGED <<auditDown, users, km, members, who, chpw, clientVars>>

ApiLogout(d) ==
  /\ session[d] # 0
  /\ session' = PostLogout(d).session
  /\ resp' = Req("logout", session[d], 0, NoRow, PostLogout(d).res, <<>>)
  /\ UNCHANGED <<auditDown, users, km, members, pwSeen, who, chpw, clientVars>>

ApiGetKey(d, userId) ==
  /\ km' = GetKey(d, userId).km
  /\ resp' = Req("get", session[d], userId, NoRow, GetKey(d, userId).res, <<>>)
  /\ resp' # resp
  /\ UNCHANGED <<auditDown, users, members, session, pwSeen, who, chpw, clientVars>>

ApiHasDataKey(d) ==
  /\ resp' = Req("has-data-key", session[d], 0, NoRow, GetHasDataKey(d), <<>>)
  /\ resp' # resp
  /\ UNCHANGED <<auditDown, users, km, members, session, pwSeen, who, chpw, clientVars>>

ApiSetup(d, publicKey, encryptedPrivateKey, wrappedDataKey) ==
  LET h == PutSetup(d, publicKey, encryptedPrivateKey, wrappedDataKey) IN
  /\ km' = h.km
  /\ resp' = Req("setup", session[d], session[d],
                 KeyRow("", publicKey, encryptedPrivateKey, wrappedDataKey), h.res, <<>>)
  /\ UNCHANGED <<auditDown, users, members, session, pwSeen, who, chpw, clientVars>>

ApiGrant(d, userId, wrappedDataKey) ==
  LET h == PostGrant(d, userId, wrappedDataKey) IN
  /\ km' = h.km
  /\ resp' = Req("grant", session[d], userId,
                 KeyRow("", NULL, NULL, wrappedDataKey), h.res, <<>>)
  /\ UNCHANGED <<auditDown, users, members, session, pwSeen, who, chpw, clientVars>>

ApiReset(d, userId) ==
  LET h == DeleteReset(d, userId) IN
  /\ km' = h.km
  /\ resp' = Req("reset", session[d], userId, NoRow, h.res, <<>>)
  /\ UNCHANGED <<auditDown, users, members, session, pwSeen, who, chpw, clientVars>>

ApiCreateUser(d, username, password, roleId, publicKey) ==
  LET h == PostUsers(d, username, password, roleId, publicKey, "s") IN
  /\ Len(h.users) <= MaxApiUsers
  /\ users' = h.users
  /\ km' = h.km
  /\ pwSeen' = IF h.users # users THEN pwSeen \cup {<<username, password>>} ELSE pwSeen
  /\ resp' = Req("create-user", session[d], 0,
                 KeyRow(roleId, publicKey, NULL, NULL), h.res, h.audit)
  /\ UNCHANGED <<auditDown, members, session, who, chpw, clientVars>>

\* POST /api/auth/change-password arrives: answered at once when it is
\* refused, suspended at its awaits otherwise
ApiChangePwStart(d, currentPassword, newPassword, newEncryptedPrivateKey) ==
  LET st == PostChangePasswordVerify(d, currentPassword, newPassword, newEncryptedPrivateKey) IN
  /\ ~chpw[d].active
  /\ chpw' = IF st # 0 THEN chpw
             ELSE [chpw EXCEPT ![d] =
                     [active |-> TRUE, userId |-> session[d],
                      currentPassword |-> currentPassword, newPassword |-> newPassword,
                      newEncryptedPrivateKey |-> newEncryptedPrivateKey]]
  /\ resp' = Req("change-password", session[d], session[d],
                 KeyRow("", NULL, newEncryptedPrivateKey, NULL), Res(st, NoRow, FALSE), <<>>)
  /\ UNCHANGED <<auditDown, users, km, members, session, pwSeen, who, clientVars>>

\* the suspended handler resumes: hashPassword, the UPDATEs, the answer
ApiChangePwApply(d) ==
  LET c == chpw[d]
      h == PostChangePasswordUpdate(c.userId, c.newPassword, c.newEncryptedPrivateKey, "s")
  IN
  /\ c.active
  /\ users' = h.users
  /\ km' = h.km
  /\ pwSeen' = pwSeen \cup {<<users[c.userId].username, c.newPassword>>}
  /\ chpw' = [chpw EXCEPT ![d] = NoChpw]
  /\ resp' = Req("change-password", c.userId, c.userId,
                 KeyRow("", NULL, c.newEncryptedPrivateKey, NULL), h.res, h.audit)
  /\ UNCHANGED <<auditDown, members, session, who, clientVars>>

\* the audit_log table stops, or starts again, accepting INSERTs (the
\* database file is locked by another connection, the disk is full)
AuditLogFlips ==
  /\ auditDown' = ~auditDown
  /\ UNCHANGED <<users, km, members, session, pwSeen, chpw, resp, who, clientVars>>

\* what the requests carry
ApiDevices == {1}
ApiUsernames == {"seed", "alice", "bob"}
ApiPasswords == {"init", "p1"}
ApiNewUsers == {<<"alice", "view-role">>, <<"bob", "no-such-role">>, <<"bob", "">>}
ApiSetupBodies == {<<KeyA, KeyA, NULL>>, <<KeyB, KeyB, KeyB>>, <<EmptyStr, KeyA, NULL>>}
ApiWrappedKeys == {KeyA, EmptyStr}
ApiUserIds == 0..MaxApiUsers
ApiPublicKeys == {EmptyStr, KeyA}

NextStore ==
  \/ \E d \in ApiDevices, u \in ApiUsernames, p \in ApiPasswords : ApiLogin(d, u, p)
  \/ \E d \in ApiDevices : ApiLogout(d)
  \/ \E d \in ApiDevices, i \in ApiUserIds : ApiGetKey(d, i)
  \/ \E d \in ApiDevices : ApiHasDataKey(d)
  \/ \E d \in ApiDevices, b \in ApiSetupBodies : ApiSetup(d, b[1], b[2], b[3])
  \/ \E d \in ApiDevices, i \in ApiUserIds, wdk \in ApiWrappedKeys : ApiGrant(d, i, wdk)
  \/ \E d \in ApiDevices, i \in ApiUserIds : ApiReset(d, i)
  \/ \E d \in ApiDevices, n \in ApiNewUsers, pk \in ApiPublicKeys :
        ApiCreateUser(d, n[1], PasswordOf(n[1]), n[2], pk)

SpecStore == Init /\ [][NextStore]_vars

(* ========== evaluation of a given KeyRecord with a given KEK ========== *)
\* A browser with alice's session cookie is about to load the page.  Her
\* KeyRecord is any of EvalRows: the encrypted private key absent, empty,
\* made under the KEK of her password, or made under the KEK of a password
\* she had before POST /api/auth/change-password replaced the verifier; the
\* KEK is in IndexedDB or not.
EvalKek == deriveKEK(PasswordOf("alice"), KekSalt("alice"))
OldKek == deriveKEK("p0", KekSalt("alice"))
EvalRows ==
  {KeyRow("view-role", pk, epk, wdk) :
     pk \in {EmptyStr, exportPublicKey(1)},
     epk \in {NULL, EmptyStr, encryptPrivateKey(1, EvalKek), encryptPrivateKey(1, OldKek)},
     wdk \in {NULL, EmptyStr, wrapDataKey(1, 1)}}

InitEval ==
  /\ users = Append(SeedUsers, [username |-> "alice",
                                password_hash |-> hashPassword(PasswordOf("alice"), "s"),
                                is_active |-> TRUE])
  /\ \E row \in EvalRows : km = (2 :> row) @@ SeedKm
  /\ members = <<>>
  /\ session = [d \in Devices |-> IF d = 1 THEN 2 ELSE 0]
  /\ pwSeen = {<<"seed", "init">>, <<"alice", PasswordOf("alice")>>}
  /\ resp = NoReq
  /\ chpw = [d \in Devices |-> NoChpw]
  /\ auditDown = FALSE
  /\ view = [d \in Devices |-> NoView]
  /\ who = Shared
  /\ auth = [d \in Devices |-> NoAuth]
  /\ crypto = [d \in Devices |-> NoCrypto]
  /\ \E k \in {NoKek, EvalKek} :
        idb = [d \in Devices |-> IF d = 1 THEN [kek |-> k, keyPair |-> 0] ELSE NoIdb]
  /\ load = [d \in Devices |-> NoLoad]
  /\ setup = [d \in Devices |-> NoSetup]
  /\ userKeys = [d \in Devices |-> <<>>]
  /\ keyPairsGenerated = 1
  /\ dataKeysGenerated = 1

NextEval ==
  \/ \E d \in Devices : PageReload(d)
  \/ \E d \in Devices : LoadKeysStart(d)
  \/ \E d \in Devices : LoadKeysFinish(d)
  \/ \E d \in Devices : Logout(d)
  \/ \E d \in Devices : Login(d, "alice")

SpecEval == InitEval /\ [][NextEval]_vars

(* ============== password change: a scenario of its own ================ *)
\* alice (admin) and bob (view-role) have set up keys and hold the DataKey;
\* nobody is logged in.  Requests go straight to the HTTP API from two
\* sessions; browser 1 is used to log in and evaluate.
PwCurrent == {"p1", "p2"}
PwNew == {"p2", "p3"}

PwUser(username) ==
  [username |-> username, password_hash |-> hashPassword("p1", "s"), is_active |-> TRUE]

InitPw ==
  /\ users = SeedUsers \o <<PwUser("alice"), PwUser("bob")>>
  /\ km = (2 :> KeyRow("admin-role", exportPublicKey(1),
                       encryptPrivateKey(1, deriveKEK("p1", KekSalt("alice"))),
                       wrapDataKey(1, 1)))
          @@ (3 :> KeyRow("view-role", exportPublicKey(2),
                          encryptPrivateKey(2, deriveKEK("p1", KekSalt("bob"))),
                          wrapDataKey(1, 2)))
          @@ SeedKm
  /\ members = <<>>
  /\ session = [d \in Devices |-> 0]
  /\ pwSeen = {<<"seed", "init">>, <<"alice", "p1">>, <<"bob", "p1">>}
  /\ resp = NoReq
  /\ chpw = [d \in Devices |-> NoChpw]
  /\ auditDown = FALSE
  /\ view = [d \in Devices |-> NoView]
  /\ who = Shared
  /\ auth = [d \in Devices |-> NoAuth]
  /\ crypto = [d \in Devices |-> NoCrypto]
  /\ idb = [d \in Devices |-> NoIdb]
  /\ load = [d \in Devices |-> NoLoad]
  /\ setup = [d \in Devices |-> NoSetup]
  /\ userKeys = [d \in Devices |-> <<>>]
  /\ keyPairsGenerated = 2
  /\ dataKeysGenerated = 1

\* the blob a client that holds its private key submits: the key of the
\* stored blob re-encrypted under the KEK of the new password
ReEncrypted(userId, newPassword) ==
  IF userId \in DOMAIN km /\ userId \in UserIds /\ km[userId].encrypted_private_key.t = "epk"
  THEN encryptPrivateKey(km[userId].encrypted_private_key.k,
                         deriveKEK(newPassword, KekSalt(users[userId].username)))
  ELSE KeyA

NextPw ==
  \/ \E d \in Devices, p \in PwCurrent : ApiLogin(d, "alice", p)
  \/ \E d \in Devices, c \in PwCurrent, n \in PwNew :
        ApiChangePwStart(d, c, n, ReEncrypted(session[d], n))
  \/ \E d \in Devices, c \in PwCurrent, n \in PwNew : ApiChangePwStart(d, c, n, JsonTrue)
  \/ \E d \in Devices : ApiChangePwApply(d)
  \/ \E d \in Devices : ApiGetKey(d, 2)
  \/ AuditLogFlips

SpecPw == InitPw /\ [][NextPw]_vars

\* the same start; alice changes her password from session 2 and logs in at
\* browser 1
NextPwLogin ==
  \/ \E p \in PwCurrent : ApiLogin(2, "alice", p)
  \/ \E c \in PwCurrent, n \in PwNew : ApiChangePwStart(2, c, n, ReEncrypted(session[2], n))
  \/ ApiChangePwApply(2)
  \/ \E p \in PwCurrent : LoginWith(1, "alice", p)
  \/ LoadKeysFinish(1)
  \/ Logout(1)
  \/ PageReload(1)

SpecPwLogin == InitPw /\ [][NextPwLogin]_vars

(* ============== two admins and a pending identity ===================== *)
\* alice and bob are admins and hold the DataKey; carol has set up and waits
\* for access.  alice uses browser 1, bob browser 2.
Admins == [d \in Devices |-> IF d = 1 THEN {"alice"} ELSE {"bob"}]

InitGrant ==
  /\ users = SeedUsers \o <<PwUser("alice"), PwUser("bob"), PwUser("carol")>>
  /\ km = (2 :> KeyRow("admin-role", exportPublicKey(1),
                       encryptPrivateKey(1, deriveKEK("p1", KekSalt("alice"))),
                       wrapDataKey(1, 1)))
          @@ (3 :> KeyRow("admin-role", exportPublicKey(2),
                          encryptPrivateKey(2, deriveKEK("p1", KekSalt("bob"))),
                          wrapDataKey(1, 2)))
          @@ (4 :> KeyRow("user-role", exportPublicKey(3),
                          encryptPrivateKey(3, deriveKEK("p1", KekSalt("carol"))),
                          NULL))
          @@ SeedKm
  /\ members = <<>>
  /\ session = [d \in Devices |-> 0]
  /\ pwSeen = {<<"seed", "init">>, <<"alice", "p1">>, <<"bob", "p1">>, <<"carol", "p1">>}
  /\ resp = NoReq
  /\ chpw = [d \in Devices |-> NoChpw]
  /\ auditDown = FALSE
  /\ view = [d \in Devices |-> NoView]
  /\ who = Admins
  /\ auth = [d \in Devices |-> NoAuth]
  /\ crypto = [d \in Devices |-> NoCrypto]
  /\ idb = [d \in Devices |-> NoIdb]
  /\ load = [d \in Devices |-> NoLoad]
  /\ setup = [d \in Devices |-> NoSetup]
  /\ userKeys = [d \in Devices |-> <<>>]
  /\ keyPairsGenerated = 3
  /\ dataKeysGenerated = 1

NextGrant ==
  \/ \E d \in Devices, u \in Usernames : Login(d, u)
  \/ \E d \in Devices : Logout(d)
  \/ \E d \in Devices : PageReload(d)
  \/ \E d \in Devices : LoadKeysFinish(d)
  \/ \E d \in Devices : AdminLoadData(d)
  \/ \E d \in Devices : GrantAccess(d, 4)
  \/ \E d \in Devices : AddMember(d, "secret")

SpecGrant == InitGrant /\ [][NextGrant]_vars

\* the same two admins, who may also reset carol's keys
NextGrantReset ==
  \/ \E d \in Devices, u \in Usernames : Login(d, u)
  \/ \E d \in Devices : Logout(d)
  \/ \E d \in Devices : PageReload(d)
  \/ \E d \in Devices : LoadKeysFinish(d)
  \/ \E d \in Devices : AdminLoadData(d)
  \/ \E d \in Devices : GrantAccess(d, 4)
  \/ \E d \in Devices : ResetKeys(d, 4)

SpecGrantReset == InitGrant /\ [][NextGrantReset]_vars

(* ============== encrypt and decrypt on the Dashboard =================== *)
\* alice is ready with DataKey 1, bob has no keys, carol has set up and waits
\* for access; all of that was done in other browsers.  Browser 1 is used by
\* everybody, browser 2 by alice.  The members table holds three rows; the
\* name of the second one is any of FieldValues: written under DataKey 1,
\* written under DataKey 2 (a key that a later bootstrap generated), altered
\* after it was written, or not a ciphertext at all.
\* what is typed into a field: plain text, text that starts with a byte
\* order mark, text that ends in half of a surrogate pair
Plaintexts == {"ann", "<U+FEFF>ann", "ann<U+D83D>"}

FieldValues ==
  {encryptData("ann", 1), encryptData("ann", 2),
   Tampered(encryptData("ann", 1)), Plaintext("ann")}

InitCrypt ==
  /\ users = SeedUsers \o <<PwUser("alice"), PwUser("bob"), PwUser("carol")>>
  /\ km = (2 :> KeyRow("admin-role", exportPublicKey(1),
                       encryptPrivateKey(1, deriveKEK("p1", KekSalt("alice"))),
                       wrapDataKey(1, 1)))
          @@ (3 :> KeyRow("view-role", EmptyStr, NULL, NULL))
          @@ (4 :> KeyRow("user-role", exportPublicKey(3),
                          encryptPrivateKey(3, deriveKEK("p1", KekSalt("carol"))),
                          NULL))
          @@ SeedKm
  /\ \E c \in FieldValues :
        members = <<[by |-> 2, name |-> encryptData("ann", 1)], [by |-> 2, name |-> c],
                    [by |-> 2, name |-> encryptData("bea", 1)]>>
  /\ session = [d \in Devices |-> 0]
  /\ pwSeen = {<<"seed", "init">>, <<"alice", "p1">>, <<"bob", "p1">>, <<"carol", "p1">>}
  /\ resp = NoReq
  /\ chpw = [d \in Devices |-> NoChpw]
  /\ auditDown = FALSE
  /\ view = [d \in Devices |-> NoView]
  /\ who = [d \in Devices |-> IF d = 1 THEN Usernames ELSE {"alice"}]
  /\ auth = [d \in Devices |-> NoAuth]
  /\ crypto = [d \in Devices |-> NoCrypto]
  /\ idb = [d \in Devices |-> NoIdb]
  /\ load = [d \in Devices |-> NoLoad]
  /\ setup = [d \in Devices |-> NoSetup]
  /\ userKeys = [d \in Devices |-> <<>>]
  /\ keyPairsGenerated = 3
  /\ dataKeysGenerated = 2

NextCrypt ==
  \/ \E d \in Devices, u \in Usernames : Login(d, u)
  \/ \E d \in Devices : Logout(d)
  \/ \E d \in Devices : PageReload(d)
  \/ \E d \in Devices : LoadKeysStart(d)
  \/ \E d \in Devices : LoadKeysFinish(d)
  \/ \E d \in Devices, m \in Plaintexts : Encrypt(d, m)
  \/ \E d \in Devices, c \in FieldValues : Decrypt(d, c)
  \/ \E d \in Devices : DecryptAllData(d)

SpecCrypt == InitCrypt /\ [][NextCrypt]_vars

(* ============== a pending identity and its poll ======================= *)
\* the same start: carol, set up and waiting for access, logs in at browser
\* 1 and alice, an admin, grants her access from browser 2.  The interval
\* timer of the provider keeps firing while the agent waits, and every
\* request is answered.
NextPoll ==
  \/ \E d \in Devices, u \in Usernames : Login(d, u)
  \/ \E d \in Devices : Logout(d)
  \/ \E d \in Devices : PageReload(d)
  \/ \E d \in Devices : LoadKeysStart(d)
  \/ \E d \in Devices : LoadKeysFinish(d)
  \/ \E d \in Devices : AdminLoadData(d)
  \/ \E d \in Devices : GrantAccess(d, 4)

SpecPoll ==
  /\ InitCrypt
  /\ [][NextPoll]_vars
  /\ \A d \in Devices : WF_vars(LoadKeysStart(d)) /\ WF_vars(LoadKeysFinish(d))

(* ============================ properties ============================== *)
\* C1: idempotent setup.  A setup request by an identity whose KeyRecord
\* already holds a non-empty encryptedPrivateKey leaves public_key,
\* encrypted_private_key and wrapped_data_key of that record (and every other
\* record) as they were, whatever the request submits; when it submits a
\* public key and an encrypted private key the answer is existing: true with
\* the stored encrypted_private_key, and the submitted one is not stored.
C1_IdempotentSetup ==
  [][\A d \in ApiDevices, b \in ApiSetupBodies :
       ( /\ ApiSetup(d, b[1], b[2], b[3])
         /\ session[d] \in DOMAIN km
         /\ Truthy(km[session[d]].encrypted_private_key) )
       => /\ km' = km
          /\ (Truthy(b[1]) /\ Truthy(b[2])) =>
               /\ resp'.res.status = 200
               /\ resp'.res.flag
               /\ resp'.res.row.encrypted_private_key
                    = km[session[d]].encrypted_private_key]_vars

\* a setup that submitted other keys than the stored ones was answered with
\* the stored ones
C1_Witness ==
  /\ resp.op = "setup"
  /\ resp.res.status = 200 /\ resp.res.flag
  /\ resp.actor \in DOMAIN km
  /\ resp.res.row.encrypted_private_key = km[resp.actor].encrypted_private_key
  /\ resp.sent.encrypted_private_key # km[resp.actor].encrypted_private_key
  /\ resp.sent.public_key # km[resp.actor].public_key
  /\ Truthy(resp.sent.wrapped_data_key)
  /\ resp.sent.wrapped_data_key # km[resp.actor].wrapped_data_key

\* the DataKeys that are stored wrapped, held by an agent, or were used for a
\* stored member
WrappedDataKeys ==
  {km[u].wrapped_data_key.dk : u \in {i \in DOMAIN km : km[i].wrapped_data_key.t = "wdk"}}
HeldDataKeys == {crypto[d].dataKey : d \in Devices} \ {0}
UsedDataKeys == {members[i].name.dataKey : i \in 1..Len(members)}

\* C2: single DataKey.  Every wrapped DataKey in the Key Store, every
\* DataKey an agent holds and every DataKey a stored ciphertext was made
\* under is a copy of one key: a DataKey is never generated a second time.
C2_SingleDataKey ==
  Cardinality(WrappedDataKeys \cup HeldDataKeys \cup UsedDataKeys) <= 1

\* what the server can compute from the request bodies it accepted and the
\* rows it stores: the KEK of an identity whose password it was sent, the
\* private keys encrypted under such a KEK, the DataKeys wrapped for such a
\* private key
ServerKeks ==
  {deriveKEK(c[2], KekSalt(c[1])) : c \in {x \in pwSeen : x[1] # "seed"}}
ServerPrivateKeys ==
  {km[u].encrypted_private_key.k :
     u \in {i \in DOMAIN km : /\ km[i].encrypted_private_key.t = "epk"
                              /\ km[i].encrypted_private_key.kek \in ServerKeks}}
ServerDataKeys ==
  {km[u].wrapped_data_key.dk :
     u \in {i \in DOMAIN km : /\ km[i].wrapped_data_key.t = "wdk"
                              /\ km[i].wrapped_data_key.k \in ServerPrivateKeys}}

\* the KEKs among them that a stored private key is encrypted under
ServerKeksInUse ==
  {k \in ServerKeks : \E u \in DOMAIN km : /\ km[u].encrypted_private_key.t = "epk"
                                           /\ km[u].encrypted_private_key.kek = k}

\* C3: zero-knowledge store.  From the rows it stores and the request bodies
\* it received, the server can derive no identity's KEK, no identity's
\* private key and no DataKey.
C3_ZeroKnowledge ==
  /\ ServerKeksInUse = {}
  /\ ServerPrivateKeys = {}
  /\ ServerDataKeys = {}

(* ---- the state an identity's evaluation yields from a given table ---- *)
KekOf(i) == deriveKEK(PasswordOf(users[i].username), KekSalt(users[i].username))
EvalKeys(kmv, i) == loadKeysResume(NoCrypto, Res(200, kmv[i], TRUE), KekOf(i))
EvalStatus(kmv, i) == getKeyStatus(users[i], EvalKeys(kmv, i))

\* C4: grant makes the target READY.  When an admin whose agent holds the
\* DataKey grants access to an identity whose evaluation is "waiting access",
\* the target's evaluation after the grant (with the KEK of its password) is
\* "ready", the DataKey it unwraps is the admin's, and every member the admin
\* stored earlier decrypts under it to the plaintext.
C4_GrantMakesReady ==
  [][\A d \in Devices, i \in 1..MaxUsers :
       ( /\ GrantAccess(d, i)
         /\ i \in DOMAIN km
         /\ EvalStatus(km, i) = "waiting access" )
       => LET e == EvalKeys(km', i) IN
          /\ getKeyStatus(users[i], e) = "ready"
          /\ e.dataKey = crypto[d].dataKey
          /\ \A j \in 1..Len(members) :
                members[j].by = auth[d].user.id
                => decryptData(members[j].name, e.dataKey)
                     = [ok |-> TRUE, value |-> "secret"]]_vars

\* C5: first-time setup of a new identity while the system has a DataKey
\* stores its public key and encrypted private key and no wrapped DataKey,
\* and leaves its agent with the key pair, without a DataKey, in
\* "waiting access".
C5_FirstSetupPending ==
  [][\A d \in Devices :
       ( /\ SetupKeysSend(d)
         /\ setup[d].wrappedKey = NULL
         /\ SystemHasDataKey
         /\ auth[d].user.id = session[d]
         /\ auth[d].kek = setup[d].kek
         /\ session[d] \in DOMAIN km
         /\ ~Truthy(km[session[d]].encrypted_private_key) )
       => LET u == session[d] IN
          /\ km'[u].public_key = exportPublicKey(setup[d].newKeyPair)
          /\ km'[u].encrypted_private_key = setup[d].encryptedPrivateKey
          /\ ~Truthy(km'[u].wrapped_data_key)
          /\ crypto'[d].keyPair.privateKey = setup[d].newKeyPair
          /\ crypto'[d].dataKey = 0
          /\ getKeyStatus(auth[d].user, crypto'[d]) = "waiting access"]_vars

\* C6: admin-only operations.  A create-user, grant or reset request under
\* the session of an identity whose role is not admin-role is answered 403
\* and leaves the users table and every KeyRecord unchanged.
C6_AdminOnly ==
  [][\A d \in ApiDevices :
       ( /\ session[d] # 0
         /\ RoleOf(session[d]) # "admin-role"
         /\ \/ \E n \in ApiNewUsers, pk \in ApiPublicKeys :
                  ApiCreateUser(d, n[1], PasswordOf(n[1]), n[2], pk)
            \/ \E i \in ApiUserIds, wdk \in ApiWrappedKeys : ApiGrant(d, i, wdk)
            \/ \E i \in ApiUserIds : ApiReset(d, i) )
       => /\ resp'.res.status = 403
          /\ users' = users
          /\ km' = km]_vars

\* a non-admin asked to reset a KeyRecord that holds keys, and was refused
C6_Witness ==
  /\ resp.op = "reset"
  /\ resp.res.status = 403
  /\ resp.actor # 0 /\ RoleOf(resp.actor) = "view-role"
  /\ resp.target \in DOMAIN km
  /\ Truthy(km[resp.target].public_key)
  /\ Truthy(km[resp.target].wrapped_data_key)

(* ---- the key states as the pages read them off the agent's fields ---- *)
\* an evaluation of a logged-in non-seed identity has run to its end
EvalDone(d) ==
  /\ auth[d].user # NoUser
  /\ auth[d].user.username # "seed"
  /\ ~load[d].active
  /\ ~setup[d].active

\* the condition under which the provider polls: keys but no DataKey
WaitingForAccess(c) ==
  /\ ~c.needsKeySetup /\ ~c.needsRelogin
  /\ c.keyPair # NoKeyPair /\ c.dataKey = 0

\* hasDataKey of the context value
hasDataKey(c) == c.dataKey # 0

KeyStates == {"session expired", "needs setup", "waiting access", "ready"}

StateHolds(s, c) ==
  CASE s = "session expired" -> c.needsRelogin
    [] s = "needs setup" -> c.needsKeySetup
    [] s = "waiting access" -> WaitingForAccess(c)
    [] s = "ready" -> hasDataKey(c)

\* C7: state-machine totality.  For every combination of local KEK
\* present/absent, encryptedPrivateKey present/absent, wrappedDataKey
\* present/absent and private-key decrypt succeeding/failing, a finished
\* evaluation of a logged-in non-seed identity leaves the agent in exactly one
\* key state (never none, never two), and that state is the status shown.
C7_Totality ==
  \A d \in Devices :
    EvalDone(d) =>
      LET S == {s \in KeyStates : StateHolds(s, crypto[d])} IN
      /\ Cardinality(S) = 1
      /\ getKeyStatus(auth[d].user, crypto[d]) \in S

\* an evaluation with a KEK that does not decrypt the stored private key, of
\* a record that holds a wrapped DataKey, has finished
C7_Witness ==
  /\ EvalDone(1)
  /\ auth[1].kek = EvalKek
  /\ km[2].encrypted_private_key = encryptPrivateKey(1, OldKek)
  /\ km[2].wrapped_data_key = wrapDataKey(1, 1)
  /\ getKeyStatus(auth[1].user, crypto[1]) = "needs setup"

\* C8: wrong password is distinguished from never set up.  When the
\* KeyRecord holds a non-empty encryptedPrivateKey that the local KEK does not
\* decrypt, the finished evaluation shows a status other than the one the
\* same identity gets from a record without encryptedPrivateKey.
C8_BrokenIsDistinct ==
  \A d \in Devices :
    ( /\ EvalDone(d)
      /\ auth[d].kek # NoKek
      /\ Truthy(km[auth[d].user.id].encrypted_private_key)
      /\ decryptPrivateKey(km[auth[d].user.id].encrypted_private_key, auth[d].kek) = Throws )
    => LET neverSetUp == [km[auth[d].user.id] EXCEPT !.encrypted_private_key = NULL] IN
       getKeyStatus(auth[d].user, crypto[d])
         # getKeyStatus(auth[d].user,
                        loadKeysResume(NoCrypto, Res(200, neverSetUp, TRUE), auth[d].kek))

\* C9: the key status is a function of the KeyRecord and the KEK.  An
\* evaluation of the logged-in identity that finishes leaves the status and
\* the held DataKey that an agent holding nothing gets from the same record
\* and KEK; after one that finds no wrapped DataKey the agent holds none.
C9_StatusIsFunctionOfStore ==
  [][\A d \in Devices :
       ( /\ LoadKeysFinish(d)
         /\ auth[d].user # NoUser
         /\ auth[d].user.username # "seed"
         /\ load[d].kek = auth[d].kek
         /\ load[d].res = Res(200, km[auth[d].user.id], TRUE) )
       => LET e == loadKeysResume(NoCrypto, load[d].res, load[d].kek) IN
          /\ getKeyStatus(auth[d].user, crypto'[d]) = getKeyStatus(auth[d].user, e)
          /\ crypto'[d].dataKey = e.dataKey
          /\ ~Truthy(load[d].res.row.wrapped_data_key) => crypto'[d].dataKey = 0]_vars

\* C10: state evaluation is read-only.  A login, a reload, a poll or a
\* manual refresh, and the arrival of its answer, leave every Identity,
\* every role and every KeyRecord as they were.
C10_EvaluationReadOnly ==
  [][\A d \in Devices :
       ( \/ LoadKeysStart(d)
         \/ LoadKeysFinish(d)
         \/ PageReload(d)
         \/ \E u \in Usernames : Login(d, u) )
       => /\ users' = users
          /\ km' = km]_vars

\* an identity that did not run setup in this browser session holds the
\* DataKey: its evaluation fetched the record and unwrapped it
C10_Witness ==
  \E d \in Devices :
    /\ EvalDone(d)
    /\ idb[d].keyPair = 0
    /\ crypto[d].dataKey # 0
    /\ km[auth[d].user.id].wrapped_data_key = wrapDataKey(crypto[d].dataKey, crypto[d].keyPair.publicKey)

\* a KeyRecord as DELETE /reset leaves one that had keys: public key and
\* wrapped DataKey emptied, the encrypted private key still stored
WasReset(row) ==
  /\ row.public_key = EmptyStr
  /\ row.wrapped_data_key = EmptyStr
  /\ Truthy(row.encrypted_private_key)

\* C11: key reset is recoverable.  When an identity whose keys an admin has
\* reset runs setup with a live KEK (while another identity still holds the
\* DataKey), the Key Store then holds the submitted
\* public key and encrypted private key for it, and its evaluation is
\* "waiting access".
C11_ResetRecoverable ==
  [][\A d \in Devices :
       ( /\ SetupKeysSend(d)
         /\ auth[d].user # NoUser
         /\ auth[d].user.id = session[d]
         /\ auth[d].kek = setup[d].kek
         /\ session[d] \in DOMAIN km
         /\ WasReset(km[session[d]])
         /\ SystemHasDataKey )
       => LET u == session[d] IN
          /\ km'[u].public_key = exportPublicKey(setup[d].newKeyPair)
          /\ km'[u].encrypted_private_key = setup[d].encryptedPrivateKey
          /\ EvalStatus(km', u) = "waiting access"]_vars

\* C12: password change swaps verifier and blob atomically.  A
\* change-password request that changes anything leaves the identity with
\* the verifier of its new password and the encrypted private key it
\* supplied; one that is refused or fails leaves both as they were.  No
\* state has the new verifier beside the old blob or the reverse.
C12_AtomicSwap ==
  [][\A d \in Devices :
       ApiChangePwApply(d) =>
         LET u == chpw[d].userId IN
         \/ /\ users'[u].password_hash = hashPassword(chpw[d].newPassword, "s")
            /\ km'[u].encrypted_private_key = chpw[d].newEncryptedPrivateKey
         \/ /\ users'[u].password_hash = users[u].password_hash
            /\ km'[u].encrypted_private_key = km[u].encrypted_private_key]_vars

\* C13: password change requires the current password.  Every
\* change-password request that changes the verifier or the KeyRecord
\* carried a current password that matches the verifier in force just before
\* the change; a request whose current password does not match is answered
\* 401 and changes neither.
C13_CurrentPasswordRequired ==
  [][\A d \in Devices :
       /\ ( ApiChangePwApply(d) /\ (users' # users \/ km' # km) )
            => verifyPassword(chpw[d].currentPassword,
                              users[chpw[d].userId].password_hash)
       /\ \A c \in PwCurrent, n \in PwNew :
            ( /\ ApiChangePwStart(d, c, n, ReEncrypted(session[d], n))
              /\ session[d] \in UserIds
              /\ ~verifyPassword(c, users[session[d]].password_hash) )
            => /\ resp'.res.status = 401
               /\ ~chpw'[d].active
               /\ users' = users /\ km' = km]_vars

\* C14: password change leaves the rest alone.  A change-password request,
\* whatever its outcome, leaves public_key, wrapped_data_key and role of the
\* caller's KeyRecord, every other identity's users row and every other
\* KeyRecord unchanged.
C14_ChangePasswordFrame ==
  [][\A d \in Devices :
       ( \/ ApiChangePwApply(d)
         \/ \E c \in PwCurrent, n \in PwNew :
              \/ ApiChangePwStart(d, c, n, ReEncrypted(session[d], n))
              \/ ApiChangePwStart(d, c, n, JsonTrue) )
       => LET u == IF chpw[d].active THEN chpw[d].userId ELSE session[d] IN
          /\ DOMAIN km' = DOMAIN km /\ Len(users') = Len(users)
          /\ \A i \in DOMAIN km :
               /\ km'[i].public_key = km[i].public_key
               /\ km'[i].wrapped_data_key = km[i].wrapped_data_key
               /\ km'[i].role_name = km[i].role_name
               /\ i # u => km'[i] = km[i]
          /\ \A i \in UserIds :
               /\ i # u => users'[i] = users[i]
               /\ users'[i].username = users[i].username
               /\ users'[i].is_active = users[i].is_active]_vars

\* a change of alice's password was applied: her verifier and blob are the
\* new ones, beside the public key and wrapped DataKey she had
C14_Witness ==
  /\ resp.op = "change-password" /\ resp.res.status = 200
  /\ resp.actor = 2
  /\ users[2].password_hash = hashPassword("p2", "s")
  /\ km[2].encrypted_private_key = encryptPrivateKey(1, deriveKEK("p2", KekSalt("alice")))
  /\ km[2].wrapped_data_key = wrapDataKey(1, 1)
  /\ km[2].public_key = exportPublicKey(1)

\* what a login of username with password at a fresh browser yields: whether
\* POST /login accepts it and, if so, the key status its evaluation ends in
LoginOutcome(username, password) ==
  LET uid == UserIdOf(username)
      kek == deriveKEK(password, KekSalt(username))
  IN
  IF PostLogin(1, username, password).res.status # 200
  THEN [accepted |-> FALSE, status |-> ""]
  ELSE [accepted |-> TRUE,
        status |-> getKeyStatus([id |-> uid, username |-> username, role |-> RoleOf(uid)],
                                loadKeysResume(NoCrypto, Res(200, km[uid], TRUE), kek))]

\* alice's password was changed from p1 to p2 with her private key
\* re-encrypted under the KEK of p2
ChangedToP2 ==
  /\ users[2].password_hash = hashPassword("p2", "s")
  /\ km[2].encrypted_private_key = encryptPrivateKey(1, deriveKEK("p2", KekSalt("alice")))
  /\ km[2].wrapped_data_key = wrapDataKey(1, 1)

\* C15: scenario C.  After a READY identity changed its password from p1 to
\* p2 with a re-encrypted private key, a login with p2 ends "ready", and a
\* login with p1 ends in a key state of its own (broken), which is none of
\* "needs setup", "waiting access", "ready".
C15_ScenarioC ==
  ChangedToP2 =>
    /\ LoginOutcome("alice", "p2") = [accepted |-> TRUE, status |-> "ready"]
    /\ LoginOutcome("alice", "p1").accepted
    /\ LoginOutcome("alice", "p1").status \notin {"needs setup", "waiting access", "ready"}

C17_PartialIsNeedsSetup ==
  \A i \in DOMAIN km :
    ( /\ i \in UserIds /\ users[i].username # "seed"
      /\ hasPublicKey(km[i].public_key)
      /\ ~Truthy(km[i].encrypted_private_key) )
    => /\ EvalStatus(km, i) = "needs setup"
       /\ AdminKeyStatus(km[i]) = "No keys"

\* C18: KeyRecord invariant.  In every state, the evaluation of a non-seed
\* identity with the KEK of its current password obtains the DataKey if and
\* only if its KeyRecord holds a non-empty encrypted private key and a
\* non-empty wrapped DataKey.
C18_KeyRecordInvariant ==
  \A i \in DOMAIN km :
    (i \in UserIds /\ users[i].username # "seed")
    => ( EvalKeys(km, i).dataKey # 0
         <=> ( Truthy(km[i].encrypted_private_key) /\ Truthy(km[i].wrapped_data_key) ) )

\* C19: the DataKey is only generated by an admin.  A setup by an identity
\* whose role is not admin-role generates no DataKey, and its PUT /setup
\* stores no wrapped DataKey.
C19_OnlyAdminGenerates ==
  [][\A d \in Devices :
       /\ ( SetupKeysStart(d) /\ auth[d].user.role # "admin-role" )
            => /\ dataKeysGenerated' = dataKeysGenerated
               /\ crypto'[d].dataKey = crypto[d].dataKey
               /\ setup'[d].wrappedKey = NULL
       /\ ( SetupKeysSend(d) /\ RoleOf(session[d]) # "admin-role" )
            => \A i \in DOMAIN km :
                 km'[i].wrapped_data_key = km[i].wrapped_data_key]_vars

\* C20: an agent obtains the DataKey only through bootstrap or a grant.  In
\* every state, when the agent acting for a logged-in identity holds a
\* DataKey, either that identity's KeyRecord has had a wrapped DataKey
\* written (its wrapped_data_key is no longer NULL; a reset leaves ''), or
\* the identity is in the middle of the setup in which it generated the key.
C20_DataKeyOnlyByBootstrapOrGrant ==
  \A d \in Devices :
    ( /\ auth[d].user # NoUser
      /\ auth[d].user.username # "seed"
      /\ crypto[d].dataKey # 0 )
    => \/ /\ auth[d].user.id \in DOMAIN km
          /\ km[auth[d].user.id].wrapped_data_key # NULL
       \/ /\ setup[d].active
          /\ setup[d].wrappedKey # NULL
          /\ setup[d].kek = auth[d].kek

\* the DataKey wrapped in the KeyRecord of identity i, 0 when there is none
GrantedDataKey(i) ==
  IF i \in DOMAIN km /\ km[i].wrapped_data_key.t = "wdk"
  THEN km[i].wrapped_data_key.dk ELSE 0

\* C21: multi-device login.  An identity whose KeyRecord holds its encrypted
\* private key and a wrapped DataKey logs in at any browser with the same
\* password: the login derives the KEK of (password, salt of the identity)
\* whatever the browser, and when its evaluation finishes the agent holds the
\* DataKey wrapped in the record and shows "ready"; setup is not offered and
\* has not run in that browser, and neither step changes a KeyRecord.
C21_MultiDeviceLogin ==
  [][\A d \in Devices :
       /\ \A u \in Usernames :
            Login(d, u) =>
              /\ u # "seed" => auth'[d].kek = deriveKEK(PasswordOf(u), KekSalt(u))
              /\ km' = km
       /\ ( /\ LoadKeysFinish(d)
            /\ auth[d].user # NoUser
            /\ load[d].kek = auth[d].kek
            /\ GrantedDataKey(auth[d].user.id) # 0 )
          => /\ crypto'[d].dataKey = GrantedDataKey(auth[d].user.id)
             /\ getKeyStatus(auth[d].user, crypto'[d]) = "ready"
             /\ ~crypto'[d].needsKeySetup
             /\ idb'[d].keyPair = 0
             /\ km' = km]_vars

\* alice is logged in at both browsers, ready with the same DataKey, and
\* neither browser ever ran setup
C21_Witness ==
  /\ \A d \in Devices :
       /\ auth[d].user.username = "alice"
       /\ EvalDone(d)
       /\ crypto[d].dataKey = 1
       /\ crypto[d].keyPair = [privateKey |-> 1, publicKey |-> 1]
       /\ idb[d].keyPair = 0
  /\ km[2].wrapped_data_key = wrapDataKey(1, 1)

\* C22: decryption fails closed at the agent.  When the agent holds a DataKey
\* and decrypt is called with a ciphertext that does not authenticate under
\* it (not a ciphertext, altered, or made under another key), the call ends
\* in an error and returns no value.
C22_DecryptFailsClosed ==
  [][\A d \in Devices, c \in FieldValues :
       ( /\ Decrypt(d, c)
         /\ crypto[d].dataKey # 0
         /\ ~decryptData(c, crypto[d].dataKey).ok )
       => /\ view'[d].out.error # ""
          /\ view'[d].out.value = Plaintext("")]_vars

\* C23: batch decrypt isolates failures.  When a ready agent decrypts the
\* rows of the members table, every name that authenticates under its DataKey
\* is shown as its plaintext, and a name that does not is not shown as a
\* decrypted value.
C23_BatchIsolatesFailures ==
  [][\A d \in Devices :
       DecryptAllData(d) =>
         /\ Len(view'[d].decryptedMembers) = Len(members)
         /\ \A i \in 1..Len(members) :
              LET r == decryptData(members[i].name, crypto[d].dataKey) IN
              /\ r.ok => view'[d].decryptedMembers[i] = Plaintext(r.value)
              /\ ~r.ok => view'[d].decryptedMembers[i] # members[i].name]_vars

\* C24: encrypt and decrypt are available only to a ready agent.  Called on
\* an agent that holds no DataKey, whatever identity it acts for (one that
\* needs setup, one that waits for access, the seed), each of them throws
\* "No data key available", returns no ciphertext and no plaintext, and
\* leaves the agent and the Key Store as they were.
C24_NoDataKeyNoCrypto ==
  [][\A d \in Devices :
       ( /\ (\E m \in Plaintexts : Encrypt(d, m)) \/ (\E c \in FieldValues : Decrypt(d, c))
         /\ crypto[d].dataKey = 0 )
       => /\ view'[d].out = Thrown("No data key available")
          /\ crypto' = crypto /\ auth' = auth /\ idb' = idb
          /\ users' = users /\ km' = km /\ members' = members]_vars

\* carol, set up and waiting for access, called encrypt and got the error;
\* bob, who needs setup, would get it as well
C24_Witness ==
  /\ auth[1].user.username = "carol"
  /\ EvalDone(1)
  /\ WaitingForAccess(crypto[1])
  /\ view[1].call = "encrypt"
  /\ view[1].out = Thrown("No data key available")

\* C25: symmetric round trip.  For every plaintext the ciphertext encrypt
\* returns decrypts under the key it was made with to the plaintext that
\* went in, and under every other key decryptData fails; a stored ciphertext
\* handed to decrypt authenticates under the held key exactly when it was
\* made with that key.
C25_SymmetricRoundTrip ==
  [][\A d \in Devices :
       LET K == crypto[d].dataKey IN
       /\ \A m \in Plaintexts :
            ( Encrypt(d, m) /\ K # 0 )
            => /\ decryptData(view'[d].out.value, K) = [ok |-> TRUE, value |-> m]
               /\ \A K2 \in (1..MaxDataKeys) \ {K} : ~decryptData(view'[d].out.value, K2).ok
       /\ \A c \in FieldValues :
            ( Decrypt(d, c) /\ K # 0 /\ c.dataKey > 0 )
            => decryptData(c, K).ok <=> c = encryptData(c.data, K)]_vars

\* C26: audit coverage.  Every setup, grant, reset and password-change
\* request that the Key Store carries out (answers 200) inserts exactly one
\* audit_log row, and the row names the caller and success.
C26_AuditCoverage ==
  ( /\ resp.op \in {"setup", "grant", "reset", "change-password"}
    /\ resp.res.status = 200 )
  => /\ Len(resp.audit) = 1
     /\ resp.audit[1].userId = resp.actor
     /\ resp.audit[1].success

\* C27: independence from audit.  While INSERTs into audit_log fail, a login
\* and a password change still answer what they answer otherwise (200 for
\* valid credentials, 401 for wrong ones), and none of them answers an error
\* after it has set the session or changed a row.
C27_AuditIndependence ==
  [][\A d \in Devices :
       /\ \A p \in PwCurrent :
            ( auditDown /\ ApiLogin(d, "alice", p) )
            => /\ resp'.res.status =
                    IF verifyPassword(p, users[UserIdOf("alice")].password_hash)
                    THEN 200 ELSE 401
               /\ resp'.res.status >= 400 => session' = session
       /\ ( /\ auditDown
            /\ ApiChangePwApply(d)
            /\ Bindable(chpw[d].newEncryptedPrivateKey) )
          => /\ resp'.res.status = 200
             /\ resp'.res.status >= 400 => users' = users /\ km' = km]_vars

\* C28: one KeyRecord per identity.  Whatever create-user requests were made,
\* answered 201 or refused, the rows of users and the rows of key_management
\* correspond one to one: every user id has a key_management row and every
\* key_management row belongs to a user id.
C28_OneKeyRecordPerIdentity == DOMAIN km = UserIds

\* C29: the KEK is lost on page refresh.  A page reload inside the session of
\* a non-seed identity leaves the agent without a KEK and with the status
\* "session expired"; the agent is not ready again before the next login.
C29_KekLostOnRefresh ==
  [][\A d \in Devices :
       /\ ( /\ PageReload(d)
            /\ session[d] # 0
            /\ users[session[d]].username # "seed" )
          => /\ auth'[d].kek = NoKek
             /\ getKeyStatus(auth'[d].user, crypto'[d]) = "session expired"
       /\ ( LoadKeysFinish(d) /\ auth[d].user # NoUser /\ auth[d].kek = NoKek )
          => crypto'[d].dataKey = 0]_vars

C31_SeedDisabled ==
  ( \E i \in DOMAIN km : users[i].username # "seed" /\ km[i].role_name = "admin-role" )
  => /\ ~users[UserIdOf("seed")].is_active
     /\ PostLogin(1, "seed", "init").res.status = 401

(* ============ the HTTP API with an inactive identity in the store ====== *)
\* raw POST /api/members
ApiAddMember(d, name) ==
  LET h == PostMembers(d, name) IN
  /\ Len(h.members) <= MaxMembers
  /\ members' = h.members
  /\ resp' = Req("add-member", session[d], 0, NoRow, h.res, <<>>)
  /\ UNCHANGED <<auditDown, users, km, session, pwSeen, who, chpw, clientVars>>

\* seed, the admin alice with her keys, and bob whose users row has
\* is_active = 0 (the column is read by POST /login, set by no route)
InitAccess ==
  /\ users = SeedUsers \o <<PwUser("alice"), [PwUser("bob") EXCEPT !.is_active = FALSE]>>
  /\ km = (2 :> KeyRow("admin-role", exportPublicKey(1),
                       encryptPrivateKey(1, deriveKEK("p1", KekSalt("alice"))),
                       wrapDataKey(1, 1)))
          @@ (3 :> KeyRow("view-role", EmptyStr, NULL, NULL))
          @@ SeedKm
  /\ members = <<>>
  /\ session = [d \in Devices |-> 0]
  /\ pwSeen = {<<"seed", "init">>, <<"alice", "p1">>, <<"bob", "p1">>}
  /\ resp = NoReq
  /\ chpw = [d \in Devices |-> NoChpw]
  /\ auditDown = FALSE
  /\ view = [d \in Devices |-> NoView]
  /\ who = Shared
  /\ ClientInit

LoginNames == {"seed", "alice", "bob", "carol", ""}
LoginPasswords == {"init", "p1", ""}
AccessIds == {2, 3}

NextAccess ==
  \/ \E d \in ApiDevices, u \in LoginNames, p \in LoginPasswords : ApiLogin(d, u, p)
  \/ \E d \in ApiDevices : ApiLogout(d)
  \/ \E d \in ApiDevices, i \in AccessIds : ApiGetKey(d, i)
  \/ \E d \in ApiDevices : ApiHasDataKey(d)
  \/ \E d \in ApiDevices : ApiSetup(d, KeyB, KeyB, KeyB)
  \/ \E d \in ApiDevices, i \in AccessIds : ApiGrant(d, i, KeyA)
  \/ \E d \in ApiDevices, i \in AccessIds : ApiReset(d, i)
  \/ \E d \in ApiDevices : ApiChangePwStart(d, "p1", "p2", ReEncrypted(session[d], "p2"))
  \/ \E d \in ApiDevices : ApiChangePwApply(d)
  \/ \E d \in ApiDevices : ApiAddMember(d, Plaintext("ann"))

SpecAccess == InitAccess /\ [][NextAccess]_vars

\* C32: login rejects bad credentials.  A POST /login naming an unknown
\* username, an inactive identity, or a password that is not the one the
\* verifier was made from is refused (401 when both fields are present, 400
\* when one is missing) and leaves every session as it was; it is answered
\* 200, with the session of that browser set to the identity, exactly when
\* the identity exists, is active and the password is the verifier's.
C32_LoginRejectsBadCredentials ==
  [][ \A d \in ApiDevices, u \in LoginNames, p \in LoginPasswords :
        ApiLogin(d, u, p) =>
          LET uid == UserIdOf(u)
              good == /\ uid # 0
                      /\ users[uid].is_active
                      /\ p # ""
                      /\ users[uid].password_hash = hashPassword(p, users[uid].password_hash.salt)
          IN IF good
             THEN resp'.res.status = 200 /\ session'[d] = uid
             ELSE /\ resp'.res.status = (IF u = "" \/ p = "" THEN 400 ELSE 401)
                  /\ session' = session ]_vars

\* bob, inactive, was just refused with his own password, in a browser
\* that holds alice's session
C32_Witness ==
  /\ resp.op = "login" /\ resp.target = UserIdOf("bob") /\ resp.res.status = 401
  /\ resp.actor = UserIdOf("alice") /\ session[1] = UserIdOf("alice")

\* the requests of the API that need a session
SessionOps == {"get", "setup", "grant", "reset", "has-data-key", "change-password",
               "add-member"}

\* C33: authentication is required.  A read of a key record, a setup, a
\* grant, a reset, a has-data-key query, a password change or the creation
\* of a member record that arrives without a session is answered 401 and
\* changes no table, no session and no suspended handler.
C33_AuthenticationRequired ==
  [][ (resp' # resp /\ resp'.op \in SessionOps /\ resp'.actor = 0)
        => /\ resp'.res.status = 401
           /\ UNCHANGED <<users, km, members, session, pwSeen, chpw>> ]_vars

\* after alice granted bob a key and logged out, a password change without
\* a session was refused
C33_Witness ==
  /\ resp.op = "change-password" /\ resp.actor = 0 /\ resp.res.status = 401
  /\ km[3].wrapped_data_key = KeyA
  /\ session[1] = 0

\* C34: reset frame.  A reset of identity U that the server accepts sets
\* U's public_key and wrapped_data_key to the empty string and leaves U's
\* encrypted_private_key and role, every password verifier and every other
\* key_management row as they were.
C34_ResetFrame ==
  [][ \A d \in ApiDevices, U \in ApiUserIds :
        (ApiReset(d, U) /\ DeleteReset(d, U).res.status = 200 /\ U \in DOMAIN km)
          => /\ km'[U].public_key = EmptyStr
             /\ km'[U].wrapped_data_key = EmptyStr
             /\ km'[U].encrypted_private_key = km[U].encrypted_private_key
             /\ km'[U].role_name = km[U].role_name
             /\ users' = users
             /\ DOMAIN km' = DOMAIN km
             /\ \A V \in DOMAIN km \ {U} : km'[V] = km[V] ]_vars

\* alice, who had set up her keys, was reset: her public key is gone and her
\* encrypted private key is still stored
C34_Witness ==
  /\ resp.op = "reset" /\ resp.res.status = 200 /\ resp.target = 2
  /\ 2 \in DOMAIN km
  /\ km[2].public_key = EmptyStr /\ km[2].wrapped_data_key = EmptyStr
  /\ Truthy(km[2].encrypted_private_key)

\* C35: a grant needs a READY granter and a target with a public key.  A
\* Grant Access click sends POST /grant (and so changes a wrapped_data_key)
\* only when the admin's browser holds the DataKey and the target's
\* key_management row holds a public key.
C35_GrantNeedsReady ==
  [][ \A d \in Devices :
        GrantAccess(d, 4) => /\ crypto[d].dataKey # 0
                             /\ hasPublicKey(km[4].public_key) ]_vars

(* ========= first-time setup of one identity in two browsers ============ *)
\* alice was created by the administrator and has not set up her keys; she
\* uses both browsers.  The system has no DataKey yet.
InitSetup ==
  /\ users = SeedUsers \o <<PwUser("alice")>>
  /\ km = (2 :> KeyRow("admin-role", EmptyStr, NULL, NULL)) @@ SeedKm
  /\ members = <<>>
  /\ session = [d \in Devices |-> 0]
  /\ pwSeen = {<<"seed", "init">>, <<"alice", "p1">>}
  /\ resp = NoReq
  /\ chpw = [d \in Devices |-> NoChpw]
  /\ auditDown = FALSE
  /\ view = [d \in Devices |-> NoView]
  /\ who = [d \in Devices |-> {"alice"}]
  /\ ClientInit

NextSetup ==
  \/ \E d \in Devices : Login(d, "alice")
  \/ \E d \in Devices : Logout(d)
  \/ \E d \in Devices : PageReload(d)
  \/ \E d \in Devices : LoadKeysStart(d)
  \/ \E d \in Devices : LoadKeysFinish(d)
  \/ \E d \in Devices : SetupKeysStart(d)
  \/ \E d \in Devices : SetupKeysSend(d)

SpecSetup == InitSetup /\ [][NextSetup]_vars

\* both browsers have alice logged in, no setupKeys or loadKeys call is
\* running in either, and both show her keys as set up
BothSetUp ==
  \A d \in Devices :
     /\ auth[d].user.username = "alice"
     /\ ~setup[d].active /\ ~load[d].active
     /\ ~crypto[d].needsKeySetup /\ ~crypto[d].needsRelogin
     /\ crypto[d].keyPair # NoKeyPair

\* C36: concurrent first-time setup of one identity from two devices.  Once
\* a (public_key, encrypted_private_key) pair is stored no later setup
\* replaces it, and when the setup calls of both browsers have returned each
\* browser holds, in memory and in IndexedDB, the key pair of the stored
\* public_key and no other.
C36_ConcurrentSetup ==
  BothSetUp =>
    LET stored == importPublicKey(km[2].public_key) IN
    /\ stored # Throws
    /\ decryptPrivateKey(km[2].encrypted_private_key, deriveKEK("p1", KekSalt("alice"))) = stored
    /\ \A d \in Devices :
          /\ crypto[d].keyPair = [privateKey |-> stored, publicKey |-> stored]
          /\ idb[d].keyPair \in {0, stored}

\* C37: logout clears all secrets.  In every state, a browser in which
\* nobody is logged in holds no key pair and no DataKey in the provider, no
\* KEK in the auth context, and neither a KEK nor a key pair in IndexedDB.
C37_LogoutClearsSecrets ==
  \A d \in Devices :
     auth[d].user = NoUser
       => /\ crypto[d].keyPair = NoKeyPair
          /\ crypto[d].dataKey = 0
          /\ auth[d].kek = NoKek
          /\ idb[d] = NoIdb

\* C38: setup writes only the caller's own KeyRecord.  A PUT /setup step
\* leaves the key_management row of every identity other than the caller
\* unchanged, creates and deletes no row, changes no role (the caller's
\* included) and leaves the users table unchanged.
C38_SetupWritesOwnRecord ==
  [][ \A d \in ApiDevices, b \in ApiSetupBodies :
        ApiSetup(d, b[1], b[2], b[3])
          => /\ DOMAIN km' = DOMAIN km
             /\ \A V \in DOMAIN km :
                   /\ V # session[d] => km'[V] = km[V]
                   /\ km'[V].role_name = km[V].role_name
             /\ users' = users ]_vars

\* alice's setup was stored while seed's row is as seeded
C38_Witness ==
  /\ resp.op = "setup" /\ resp.actor = 2 /\ resp.res.status = 200 /\ ~resp.res.flag
  /\ 2 \in DOMAIN km
  /\ km[2].public_key = resp.sent.public_key
  /\ km[2].encrypted_private_key = resp.sent.encrypted_private_key
  /\ km[1] = SeedKm[1]

\* C39: reported success implies persistence.  After a PUT /setup answered
\* with success and existing: false the caller's key_management row holds
\* the submitted public_key and encrypted_private_key; after a POST /grant
\* or DELETE /reset answered with success the target's row exists and holds
\* the submitted wrapped_data_key, respectively the two emptied fields.
C39_SuccessImpliesPersistence ==
  (resp.res.status = 200 /\ resp.op \in {"setup", "grant", "reset"})
    => /\ resp.target \in DOMAIN km
       /\ (resp.op = "setup" /\ ~resp.res.flag)
             => /\ km[resp.target].public_key = resp.sent.public_key
                /\ km[resp.target].encrypted_private_key = resp.sent.encrypted_private_key
       /\ resp.op = "grant"
             => km[resp.target].wrapped_data_key = resp.sent.wrapped_data_key
       /\ resp.op = "reset"
             => /\ km[resp.target].public_key = EmptyStr
                /\ km[resp.target].wrapped_data_key = EmptyStr

\* C40: key records are readable only by their owner or an admin.  A GET
\* /api/keys/V under the session of an identity that is neither V nor an
\* admin is answered 403 with none of V's fields; under the session of V or
\* of an admin it is answered with V's row, or 404 when V has none.
C40_KeyRecordReadAccess ==
  [][ \A d \in ApiDevices, V \in ApiUserIds :
        (ApiGetKey(d, V) /\ session[d] # 0)
          => IF session[d] # V /\ RoleOf(session[d]) # "admin-role"
             THEN resp'.res = Res(403, NoRow, FALSE)
             ELSE IF V \in DOMAIN km
             THEN resp'.res.status = 200 /\ resp'.res.row = km[V]
             ELSE resp'.res = Res(404, NoRow, FALSE) ]_vars

\* alice, who has the view role, asked for seed's key record and was refused
C40_Witness ==
  /\ resp.op = "get" /\ resp.res.status = 403
  /\ resp.actor = 2 /\ RoleOf(2) = "view-role"
  /\ resp.target = 1 /\ 1 \in DOMAIN km
====
